---- MODULE Spec2Model ----
(***************************************************************************)
(* A model of astrosky: the report orchestrator (skycli/report.py), the    *)
(* /api/report handler and the data sources the report is built from.      *)
(* Every operation is one call: an action draws the call's inputs and the  *)
(* answers of the outside world (feeds, ephemeris) from small sets and     *)
(* records what the code returns or raises.                                *)
(*                                                                         *)
(* Optional values (Python's None) are sets with at most one element:      *)
(* None is {} and a given value v is {v}.                                  *)
(***************************************************************************)
EXTENDS Integers, Sequences, FiniteSets, TLC

None == {}
Some(v) == {v}
TheVal(o) == CHOOSE v \in o : TRUE

(***************************************************************************)
(* State. Each component has the position of its one call (idle, then      *)
(* done), the inputs the call was made with and what it gave back.         *)
(***************************************************************************)
VARIABLES
    rp_pc, rp_in, rp_comp, rp_called, rp_instant, report, api_status, \* report.py, routers/report.py
    iss_pc, iss_in, iss_out,                                \* sources/iss.py
    au_pc, au_in, au_out,                                   \* sources/aurora.py
    wx_pc, wx_in, wx_out,                                   \* sources/weather.py
    ev_pc, ev_in, ev_out,                                   \* sources/events.py
    pl_pc, pl_in, pl_out,                                   \* sources/planets.py
    dso_pc, dso_in, dso_out,                                \* sources/deep_sky.py
    mt_pc, mt_in, mt_out,                                   \* sources/meteors.py
    mn_pc, mn_in, mn_out,                                   \* sources/sun_moon.py (get_moon_info)
    sn_pc, sn_in, sn_out,                                   \* sources/sun_moon.py (get_sun_times)
    sat_pc, sat_in, sat_out,                                \* sources/satellites.py
    eph_cache, eph_loads, eph_th,                           \* the _get_ephemeris caches of sun_moon, planets, deep_sky
    loc_file, loc_last,                                     \* locations.py and the location commands of cli.py
    obs_db, obs_last,                                       \* api/app/routers/observations.py
    vp_pc, vp_in, vp_out,                                   \* sources/aurora.py (_calculate_visibility_probability)
    cc_pc, cc_in, cc_out                                    \* sources/weather.py (_calculate_condition)

reportVars == <<rp_pc, rp_in, rp_comp, rp_called, rp_instant, report, api_status>>
issVars == <<iss_pc, iss_in, iss_out>>
auroraVars == <<au_pc, au_in, au_out>>
weatherVars == <<wx_pc, wx_in, wx_out>>
eventsVars == <<ev_pc, ev_in, ev_out>>
planetsVars == <<pl_pc, pl_in, pl_out>>
dsoVars == <<dso_pc, dso_in, dso_out>>
meteorsVars == <<mt_pc, mt_in, mt_out>>
moonVars == <<mn_pc, mn_in, mn_out>>
sunVars == <<sn_pc, sn_in, sn_out>>
satVars == <<sat_pc, sat_in, sat_out>>
ephVars == <<eph_cache, eph_loads, eph_th>>
locVars == <<loc_file, loc_last>>
obsVars == <<obs_db, obs_last>>
probVars == <<vp_pc, vp_in, vp_out>>
condVars == <<cc_pc, cc_in, cc_out>>

vars ==
    <<reportVars, issVars, auroraVars, weatherVars, eventsVars, planetsVars,
      dsoVars, meteorsVars, moonVars, sunVars, satVars, ephVars,
      locVars, obsVars, probVars, condVars>>

\* What an action of one component leaves alone: every other component (but for the
\* ephemeris caches, which the sources that call _get_ephemeris fill).
exceptReport ==
    <<issVars, auroraVars, weatherVars, eventsVars, planetsVars, dsoVars,
      meteorsVars, moonVars, sunVars, satVars,
      locVars, obsVars, probVars, condVars>>
exceptIss ==
    <<reportVars, auroraVars, weatherVars, eventsVars, planetsVars, dsoVars,
      meteorsVars, moonVars, sunVars, satVars, ephVars,
      locVars, obsVars, probVars, condVars>>
exceptAurora ==
    <<reportVars, issVars, weatherVars, eventsVars, planetsVars, dsoVars,
      meteorsVars, moonVars, sunVars, satVars, ephVars,
      locVars, obsVars, probVars, condVars>>
exceptWeather ==
    <<reportVars, issVars, auroraVars, eventsVars, planetsVars, dsoVars,
      meteorsVars, moonVars, sunVars, satVars, ephVars,
      locVars, obsVars, probVars, condVars>>
exceptEvents ==
    <<reportVars, issVars, auroraVars, weatherVars, planetsVars, dsoVars,
      meteorsVars, moonVars, sunVars, satVars, ephVars,
      locVars, obsVars, probVars, condVars>>
exceptPlanets ==
    <<reportVars, issVars, auroraVars, weatherVars, eventsVars, dsoVars,
      meteorsVars, moonVars, sunVars, satVars,
      locVars, obsVars, probVars, condVars>>
exceptDso ==
    <<reportVars, issVars, auroraVars, weatherVars, eventsVars, planetsVars,
      meteorsVars, moonVars, sunVars, satVars,
      locVars, obsVars, probVars, condVars>>
exceptMeteors ==
    <<reportVars, issVars, auroraVars, weatherVars, eventsVars, planetsVars,
      dsoVars, moonVars, sunVars, satVars, ephVars,
      locVars, obsVars, probVars, condVars>>
exceptMoon ==
    <<reportVars, issVars, auroraVars, weatherVars, eventsVars, planetsVars,
      dsoVars, meteorsVars, sunVars, satVars,
      locVars, obsVars, probVars, condVars>>
exceptSun ==
    <<reportVars, issVars, auroraVars, weatherVars, eventsVars, planetsVars,
      dsoVars, meteorsVars, moonVars, satVars,
      locVars, obsVars, probVars, condVars>>
exceptSat ==
    <<reportVars, issVars, auroraVars, weatherVars, eventsVars, planetsVars,
      dsoVars, meteorsVars, moonVars, sunVars, ephVars,
      locVars, obsVars, probVars, condVars>>
exceptEph ==
    <<reportVars, issVars, auroraVars, weatherVars, eventsVars, planetsVars,
      dsoVars, meteorsVars, moonVars, sunVars, satVars,
      locVars, obsVars, probVars, condVars>>
exceptLoc ==
    <<reportVars, issVars, auroraVars, weatherVars, eventsVars, planetsVars,
      dsoVars, meteorsVars, moonVars, sunVars, satVars, ephVars,
      obsVars, probVars, condVars>>
exceptObs ==
    <<reportVars, issVars, auroraVars, weatherVars, eventsVars, planetsVars,
      dsoVars, meteorsVars, moonVars, sunVars, satVars, ephVars,
      locVars, probVars, condVars>>
exceptProb ==
    <<reportVars, issVars, auroraVars, weatherVars, eventsVars, planetsVars,
      dsoVars, meteorsVars, moonVars, sunVars, satVars, ephVars,
      locVars, obsVars, condVars>>
exceptCond ==
    <<reportVars, issVars, auroraVars, weatherVars, eventsVars, planetsVars,
      dsoVars, meteorsVars, moonVars, sunVars, satVars, ephVars,
      locVars, obsVars, probVars>>

\* Before a call: nothing was passed in, nothing came back.
NotCalled == [kind |-> "none"]
NoInput == [none |-> TRUE]

\* The outcome of a call: a returned value, or an exception that leaves the function.
Returned(v) == [kind |-> "return", value |-> v]
Raised(e) == [kind |-> "raise", exc |-> e]

(***************************************************************************)
(* The ephemeris caches: _get_ephemeris of sources/sun_moon.py,            *)
(* sources/planets.py and sources/deep_sky.py. Each of the three modules   *)
(* has its own globals _ephemeris and _timescale. A report build is a      *)
(* thread (the API runs get_report on the server's worker threads) that    *)
(* makes the builds' calls in order; within _get_ephemeris a thread can be *)
(* overtaken between the test, the two loads and the return.               *)
(***************************************************************************)

\* Number of report builds running in the process.
NumThreads == 2

Threads == 1..NumThreads

EphModules == {"sun_moon", "planets", "deep_sky"}

\* The modules whose _get_ephemeris one report build calls, in order: get_sun_times,
\* get_moon_info, get_visible_planets, get_visible_dso.
EphCalls == <<"sun_moon", "sun_moon", "planets", "deep_sky">>

\* _ephemeris = None, _timescale = None
EmptyCache == [m \in EphModules |-> [ephemeris |-> None, timescale |-> None]]

NoLoads == [dataset |-> 0, timescale |-> 0]

\* A loaded object is named by the number of the load that made it; a build keeps
\* the pair its latest call of _get_ephemeris returned.
EphInit ==
    /\ eph_cache = EmptyCache
    /\ eph_loads = NoLoads
    /\ eph_th = [t \in Threads |-> [pc |-> "test", call |-> 1, got |-> None]]

\* _get_ephemeris of module m run without interruption: the cache and the load
\* counts afterwards.
GetEphemerisAlone(cache, loads, m) ==
    IF cache[m].ephemeris = None
    THEN [cache |-> [cache EXCEPT ![m] = [ephemeris |-> Some(loads.dataset + 1),
                                          timescale |-> Some(loads.timescale + 1)]],
          loads |-> [dataset |-> loads.dataset + 1, timescale |-> loads.timescale + 1]]
    ELSE [cache |-> cache, loads |-> loads]

\* if _ephemeris is None:
EphTest(t) ==
    /\ eph_th[t].pc = "test"
    /\ eph_th' = [eph_th EXCEPT ![t].pc =
                    IF eph_cache[EphCalls[eph_th[t].call]].ephemeris = None
                    THEN "load_ephemeris" ELSE "return"]
    /\ UNCHANGED <<eph_cache, eph_loads>>
    /\ UNCHANGED exceptEph

\* _ephemeris = load("de421.bsp")
EphLoadDataset(t) ==
    /\ eph_th[t].pc = "load_ephemeris"
    /\ eph_loads' = [eph_loads EXCEPT !.dataset = @ + 1]
    /\ eph_cache' = [eph_cache EXCEPT ![EphCalls[eph_th[t].call]].ephemeris = Some(eph_loads'.dataset)]
    /\ eph_th' = [eph_th EXCEPT ![t].pc = "load_timescale"]
    /\ UNCHANGED exceptEph

\* _timescale = load.timescale()
EphLoadTimescale(t) ==
    /\ eph_th[t].pc = "load_timescale"
    /\ eph_loads' = [eph_loads EXCEPT !.timescale = @ + 1]
    /\ eph_cache' = [eph_cache EXCEPT ![EphCalls[eph_th[t].call]].timescale = Some(eph_loads'.timescale)]
    /\ eph_th' = [eph_th EXCEPT ![t].pc = "return"]
    /\ UNCHANGED exceptEph

\* return _ephemeris, _timescale; the caller then uses both (ts.utc(...), eph[...]),
\* which raises AttributeError on a timescale that is None. Otherwise the build goes
\* on to its next call.
EphReturn(t) ==
    /\ eph_th[t].pc = "return"
    /\ LET m == EphCalls[eph_th[t].call]
           pair == [module |-> m, ephemeris |-> eph_cache[m].ephemeris,
                    timescale |-> eph_cache[m].timescale]
       IN eph_th' = [eph_th EXCEPT
                        ![t].got = Some(pair),
                        ![t].pc = IF pair.timescale = None THEN "raised"
                                  ELSE IF eph_th[t].call = Len(EphCalls) THEN "done"
                                  ELSE "test",
                        ![t].call = IF pair.timescale = None \/ @ = Len(EphCalls) THEN @ ELSE @ + 1]
    /\ UNCHANGED <<eph_cache, eph_loads>>
    /\ UNCHANGED exceptEph

EphNext ==
    \E t \in Threads :
        EphTest(t) \/ EphLoadDataset(t) \/ EphLoadTimescale(t) \/ EphReturn(t)

\* The pairs the builds' latest calls of _get_ephemeris were handed.
EphGot == UNION {eph_th[t].got : t \in Threads}

\* C17: over any interleaving of report builds in one process the ephemeris dataset
\* and its timescale are loaded at most once, and every computation is handed that
\* one loaded instance.
C17_EphemerisLoadedOnce ==
    /\ eph_loads.dataset <= 1
    /\ eph_loads.timescale <= 1
    /\ \A p \in EphGot, q \in EphGot : p.ephemeris = q.ephemeris

\* C26 as stated: under any interleaving of concurrent callers, every pair that
\* _get_ephemeris hands out holds a loaded ephemeris and a loaded timescale.
C26_BothObjectsLoaded ==
    \A pair \in EphGot : pair.ephemeris # None /\ pair.timescale # None

\* The caches after the calls of _get_ephemeris one source function makes, one after
\* the other and undisturbed.
RECURSIVE AfterCalls(_, _, _)
AfterCalls(cache, loads, mods) ==
    IF mods = <<>> THEN [cache |-> cache, loads |-> loads]
    ELSE LET r == GetEphemerisAlone(cache, loads, Head(mods))
         IN  AfterCalls(r.cache, r.loads, Tail(mods))

EphUsedBy(mods) ==
    /\ eph_cache' = AfterCalls(eph_cache, eph_loads, mods).cache
    /\ eph_loads' = AfterCalls(eph_cache, eph_loads, mods).loads
    /\ UNCHANGED eph_th

(***************************************************************************)
(* Report orchestrator: skycli/report.py and api/app/routers/report.py     *)
(***************************************************************************)

\* Largest number of names in an only/exclude list the model enumerates.
MaxFilter == 2

SECTIONS == {"moon", "planets", "iss", "meteors", "events", "deepsky"}

\* section name -> key of the report
SECTION_MAP ==
    [s \in SECTIONS |->
        CASE s = "moon" -> "moon"
          [] s = "planets" -> "planets"
          [] s = "iss" -> "iss_passes"
          [] s = "meteors" -> "meteors"
          [] s = "deepsky" -> "deep_sky"
          [] s = "events" -> "events"]

ListSections == {"planets", "iss", "meteors", "deepsky", "events"}

\* An only/exclude argument: None, or a list of section names (used for membership only).
Filters == {None} \cup {Some(f) : f \in {x \in SUBSET SECTIONS : Cardinality(x) <= MaxFilter}}

\* What the components answer during one build. sun and moon are records of the
\* sun/moon source; the five list sources answer a (possibly empty) list.
ComponentAnswers ==
    [sun : {"SunTimes"}, moon : {"MoonInfo"},
     planets : {<<>>, <<"Jupiter">>}, iss : {<<>>, <<"pass">>},
     meteors : {<<>>, <<"Ursids">>}, deepsky : {<<>>, <<"M042">>},
     events : {<<>>, <<"Full Moon">>}]

Lats == {-100, 41, 90}
Lons == {-74, 200}
\* The date argument, a datetime: the day given with --date (at midnight) or the
\* present instant.
Dates == {[day |-> "2025-01-15", time |-> "00:00"], [day |-> "2025-01-15", time |-> "19:00"]}

\* The at_time argument: None, or the HH:MM given with --at.
AtTimes == {None, Some("22:00")}

\* The instant build_report passes to every source it calls: its date argument.
SourceInstant(date, at_time) == date

ShouldIncludeExcludeFirst(section, only, exclude) ==
    IF exclude # None THEN section \notin TheVal(exclude)
    ELSE IF only # None THEN section \in TheVal(only)
    ELSE TRUE

\* _should_include
ShouldInclude(section, only, exclude) ==
    IF only # None THEN section \in TheVal(only)
    ELSE IF exclude # None THEN section \notin TheVal(exclude)
    ELSE TRUE

\* The components build_report calls: sun and moon always, a list source iff included.
BuildCalled(only, exclude) ==
    {"sun", "moon"} \cup {s \in ListSections : ShouldInclude(s, only, exclude)}

SectionValue(s, only, exclude, comp) ==
    IF ShouldInclude(s, only, exclude) THEN comp[s] ELSE <<>>

BuildReportMoonFiltered(lat, lon, date, only, exclude, comp) ==
    [date |-> date,
     location |-> [lat |-> lat, lon |-> lon],
     sun |-> Some(comp.sun),
     moon |-> IF ShouldInclude("moon", only, exclude) THEN Some(comp.moon) ELSE None,
     planets |-> SectionValue("planets", only, exclude, comp),
     iss_passes |-> SectionValue("iss", only, exclude, comp),
     meteors |-> SectionValue("meteors", only, exclude, comp),
     deep_sky |-> SectionValue("deepsky", only, exclude, comp),
     events |-> SectionValue("events", only, exclude, comp)]

\* build_report: the dict it returns. sun and moon hold Some(record): both are set
\* from the always-called sources before any filter is looked at.
BuildReportDict(lat, lon, date, only, exclude, comp) ==
    [date |-> date,
     location |-> [lat |-> lat, lon |-> lon],
     sun |-> Some(comp.sun),
     moon |-> Some(comp.moon),
     planets |-> SectionValue("planets", only, exclude, comp),
     iss_passes |-> SectionValue("iss", only, exclude, comp),
     meteors |-> SectionValue("meteors", only, exclude, comp),
     deep_sky |-> SectionValue("deepsky", only, exclude, comp),
     events |-> SectionValue("events", only, exclude, comp)]

\* ReportResponse: the fields the response model declares; none has a default, so
\* each must be a key of the report (a nullable field still has to be given).
ResponseFields ==
    {"date", "location", "sun", "moon", "weather", "aurora",
     "planets", "iss_passes", "meteors", "deep_sky", "events"}

\* ReportResponse(**report): validation succeeds iff every declared field is given
\* and the non-nullable records are not None.
ResponseValidates(r) ==
    /\ ResponseFields \subseteq DOMAIN r
    /\ r["sun"] # None
    /\ r["moon"] # None

\* Query(ge=-90, le=90) and Query(ge=-180, le=180)
QueryValid(lat, lon) == lat >= -90 /\ lat <= 90 /\ lon >= -180 /\ lon <= 180

\* The modules whose _get_ephemeris a build calls: get_sun_times and get_moon_info
\* always, get_visible_planets and get_visible_dso when their sections are included.
BuildEphCalls(only, exclude) ==
    <<"sun_moon", "sun_moon">>
    \o (IF ShouldInclude("planets", only, exclude) THEN <<"planets">> ELSE <<>>)
    \o (IF ShouldInclude("deepsky", only, exclude) THEN <<"deep_sky">> ELSE <<>>)

NoReport == [none |-> TRUE]
NoAnswers == [none |-> TRUE]

ReportInit ==
    /\ rp_pc = "idle"
    /\ rp_in = NoInput
    /\ rp_comp = NoAnswers
    /\ rp_called = {}
    /\ rp_instant = None
    /\ report = NoReport
    /\ api_status = 0

\* A direct call of build_report (the CLI's tonight command, the tests).
BuildReport ==
    /\ rp_pc = "idle"
    /\ \E lat \in {41}, lon \in {-74}, date \in Dates, at_time \in AtTimes, only \in Filters,
          exclude \in Filters, comp \in ComponentAnswers :
        /\ rp_in' = [lat |-> lat, lon |-> lon, date |-> date, at_time |-> at_time,
                      only |-> only, exclude |-> exclude]
        /\ rp_instant' = Some(SourceInstant(date, at_time))
        /\ rp_comp' = comp
        /\ rp_called' = BuildCalled(only, exclude)
        /\ report' = BuildReportDict(lat, lon, date, only, exclude, comp)
        /\ EphUsedBy(BuildEphCalls(only, exclude))
    /\ rp_pc' = "built"
    /\ UNCHANGED api_status
    /\ UNCHANGED exceptReport

\* GET /api/report: get_report. Out-of-range coordinates are answered 422 before the
\* handler runs; a response that fails validation leaves the handler as an exception,
\* which the framework answers with 500.
GetReport ==
    /\ rp_pc = "idle"
    /\ \E lat \in Lats, lon \in Lons, date \in Dates, comp \in ComponentAnswers :
        /\ rp_in' = [lat |-> lat, lon |-> lon, date |-> date, at_time |-> None,
                      only |-> None, exclude |-> None]
        /\ IF QueryValid(lat, lon)
           THEN /\ rp_comp' = comp
                /\ rp_called' = BuildCalled(None, None)
                /\ rp_instant' = Some(SourceInstant(date, None))
                /\ report' = BuildReportDict(lat, lon, date, None, None, comp)
                /\ api_status' = IF ResponseValidates(report') THEN 200 ELSE 500
                /\ EphUsedBy(BuildEphCalls(None, None))
           ELSE /\ api_status' = 422
                /\ UNCHANGED <<rp_comp, rp_called, rp_instant, report, ephVars>>
    /\ rp_pc' = "served"
    /\ UNCHANGED exceptReport

ReportNext == BuildReport \/ GetReport

\* The inclusion rule as the specification words it, case by case.
FilterIncludes(s, only, exclude) ==
    \/ (only # None /\ s \in TheVal(only))
    \/ (only = None /\ exclude # None /\ s \notin TheVal(exclude))
    \/ (only = None /\ exclude = None)

\* C1: each of the five list sections is fetched from its component, and holds the
\* component's answer, iff the only/exclude rule includes it (only wins over exclude
\* when both are given); a section that is not included is exactly the empty list.
C1_SectionInclusion ==
    rp_pc = "built" =>
        \A s \in ListSections :
            LET included == FilterIncludes(s, rp_in.only, rp_in.exclude)
            IN /\ (s \in rp_called <=> included)
               /\ report[SECTION_MAP[s]] = IF included THEN rp_comp[s] ELSE <<>>

\* C1 witness: only and exclude both name planets, and planets is still populated.
C1_Witness ==
    /\ rp_pc = "built"
    /\ rp_in.only = Some({"planets"})
    /\ rp_in.exclude = Some({"planets"})
    /\ report["planets"] = <<"Jupiter">>
    /\ report["events"] = <<>>
    /\ rp_comp["events"] = <<"Full Moon">>

\* C2 as stated: the moon field is populated only when the filter includes the moon
\* section, and the sun field is populated under every filter.
C2_Original ==
    rp_pc = "built" =>
        /\ (report["moon"] # None => FilterIncludes("moon", rp_in.only, rp_in.exclude))
        /\ report["sun"] # None

\* C2 amended: under every filter the moon field and the sun field both hold what
\* the sun/moon source answered; the moon entry of only/exclude has no effect on
\* the report build_report returns.
C2_MoonAndSunAlwaysPopulated ==
    rp_pc = "built" =>
        /\ report["moon"] = Some(rp_comp.moon)
        /\ report["sun"] = Some(rp_comp.sun)
        /\ {"sun", "moon"} \subseteq rp_called

\* C2 witness: a build whose filter leaves the moon section out, with moon populated.
C2_Witness ==
    /\ rp_pc = "built"
    /\ ~FilterIncludes("moon", rp_in.only, rp_in.exclude)
    /\ rp_in.exclude = Some({"moon"})
    /\ report["moon"] # None

\* C3 as stated: every report build_report returns has a weather and an aurora key
\* next to the nine others, and /api/report answers 200 for every valid query.
C3_ReportHasWeatherAurora ==
    /\ rp_pc \in {"built", "served"} /\ report # NoReport =>
           ResponseFields \subseteq DOMAIN report
    /\ rp_pc = "served" /\ QueryValid(rp_in.lat, rp_in.lon) => api_status = 200

\* C16: when at_time is passed to build_report, the sections are computed for that
\* time on the report date, not for the time the date argument carries.
C16_AtTimeOverrides ==
    (rp_pc = "built" /\ rp_in.at_time # None) =>
        /\ rp_instant = Some([day |-> rp_in.date.day, time |-> TheVal(rp_in.at_time)])
        /\ report.date = [day |-> rp_in.date.day, time |-> TheVal(rp_in.at_time)]

(***************************************************************************)
(* ISS passes: skycli/sources/iss.py                                       *)
(***************************************************************************)

\* Longest list of passes the feed answers in the model.
MaxPasses == 2

\* Magnitudes are in tenths: -30 is magnitude -3.0.
BRIGHTNESS_THRESHOLD_BRIGHT == -30
BRIGHTNESS_THRESHOLD_MODERATE == -15

Directions == <<"N", "NE", "E", "SE", "S", "SW", "W", "NW">>

\* _azimuth_to_direction, for a whole number of degrees: round(azimuth / 45) % 8.
\* azimuth / 45 is never halfway between two integers for an integer azimuth.
AzimuthToDirection(azimuth) == Directions[(((2 * azimuth + 45) \div 90) % 8) + 1]

\* _magnitude_to_brightness
MagnitudeToBrightness(mag) ==
    IF mag <= BRIGHTNESS_THRESHOLD_BRIGHT THEN "Bright!"
    ELSE IF mag <= BRIGHTNESS_THRESHOLD_MODERATE THEN "Moderate"
    ELSE "Faint"

PassKeys == {"startUTC", "duration", "maxEl", "startAz", "endAz"}

\* One element of the feed's "passes" array: a JSON object with some of the keys
\* (mag is optional for the code), or a JSON value that is not an object.
GoodEntries ==
    [type : {"object"}, keys : {PassKeys \cup {"mag"}, PassKeys},
     startUTC : {1737054120}, duration : {600, 95}, maxEl : {67},
     startAz : {225, 338}, endAz : {45}, mag : {-32, -15}]

BadEntries ==
    [type : {"object"}, keys : {PassKeys \ {"startUTC"}, {"mag"}},
     startUTC : {1737054120}, duration : {600}, maxEl : {67},
     startAz : {225}, endAz : {45}, mag : {-32}]
    \cup
    [type : {"number"}, keys : {{}},
     startUTC : {0}, duration : {0}, maxEl : {0}, startAz : {0}, endAz : {0}, mag : {0}]

Entries == GoodEntries \cup BadEntries

EntryLists == UNION {[1..n -> Entries] : n \in 0..MaxPasses}

\* What httpx.get / raise_for_status / response.json() do in one call: raise one of
\* the exceptions the code names, or hand back the decoded JSON value. A decoded
\* value is an object (with or without "passes", whose value is a list or null) or
\* some other JSON value.
FeedOutcomes ==
    {[kind |-> k] : k \in {"TimeoutException", "HTTPStatusError", "RequestError", "JSONDecodeError"}}
    \cup {[kind |-> "json", type |-> t] : t \in {"array", "null", "string"}}
    \cup {[kind |-> "json", type |-> "object", passes |-> None]}
    \cup {[kind |-> "json", type |-> "object", passes |-> Some([list |-> FALSE])]}
    \cup {[kind |-> "json", type |-> "object", passes |-> Some([list |-> TRUE, items |-> l])] :
            l \in EntryLists}

\* The exception the loop body raises for one entry, "" when it builds the pass:
\* p.get on a non-object, then p["startUTC"] ... on a missing key.
EntryError(p) ==
    IF p.type # "object" THEN "AttributeError"
    ELSE IF ~(PassKeys \subseteq p.keys) THEN "KeyError"
    ELSE ""

\* The ISSPass built from a well-formed entry; mag defaults to 0.0.
MakePass(p) ==
    LET mag == IF "mag" \in p.keys THEN p.mag ELSE 0
    IN [start_time |-> p.startUTC,
        duration_minutes |-> p.duration \div 60,
        max_altitude |-> p.maxEl,
        start_direction |-> AzimuthToDirection(p.startAz),
        end_direction |-> AzimuthToDirection(p.endAz),
        brightness |-> MagnitudeToBrightness(mag),
        magnitude |-> mag]

RECURSIVE ConvertPasses(_, _)
\* The for loop of get_iss_passes over the entries, from entry i on, acc built so far.
ConvertPasses(items, acc) ==
    IF items = <<>> THEN Returned(acc)
    ELSE IF EntryError(Head(items)) # "" THEN Raised(EntryError(Head(items)))
    ELSE ConvertPasses(Tail(items), Append(acc, MakePass(Head(items))))

\* get_iss_passes
GetIssPassesResult(api_key, feed) ==
    IF api_key = "" THEN Returned(<<>>)
    ELSE IF feed.kind # "json" THEN Returned(<<>>)
    ELSE IF feed.type # "object" THEN Raised("AttributeError")
    ELSE IF feed.passes = None THEN Returned(<<>>)
    ELSE IF ~TheVal(feed.passes).list THEN Raised("TypeError")
    ELSE ConvertPasses(TheVal(feed.passes).items, <<>>)

IssInit ==
    /\ iss_pc = "idle"
    /\ iss_in = NoInput
    /\ iss_out = NotCalled

GetIssPasses ==
    /\ iss_pc = "idle"
    /\ \E api_key \in {"", "key"}, feed \in FeedOutcomes :
        /\ iss_in' = [api_key |-> api_key, feed |-> feed]
        /\ iss_out' = GetIssPassesResult(api_key, feed)
    /\ iss_pc' = "done"
    /\ UNCHANGED exceptIss

\* The feed answered something other than an object holding a list of well-formed passes.
IssMalformed(feed) ==
    /\ feed.kind = "json"
    /\ \/ feed.type # "object"
       \/ /\ feed.passes # None
          /\ \/ ~TheVal(feed.passes).list
             \/ \E i \in DOMAIN TheVal(feed.passes).items :
                    EntryError(TheVal(feed.passes).items[i]) # ""

\* C4 as stated: get_iss_passes never raises, and with a missing key, a network
\* error, a timeout, an HTTP error status or a malformed response it returns [].
C4_IssNeverRaises ==
    iss_pc = "done" =>
        /\ iss_out.kind = "return"
        /\ (iss_in.api_key = "" \/ iss_in.feed.kind # "json" \/ IssMalformed(iss_in.feed))
               => iss_out = Returned(<<>>)

(***************************************************************************)
(* Aurora forecast: skycli/sources/aurora.py                               *)
(* Kp values are in hundredths (233 is Kp 2.33); the forecast's rounded    *)
(* kp_current and kp_24h_max are in tenths. Latitudes are whole degrees.   *)
(***************************************************************************)

\* Most readings, after the header and the padding, that the feed answers in the model.
MaxReadings == 2

\* readings[-8:]: the last 8 three-hour readings
KpWindow == 8

\* kp_current = 2.0 and kp_24h_max = 3.0 before the fetch, in hundredths
KP_DEFAULT_CURRENT == 200
KP_DEFAULT_MAX == 300

\* KP_TO_LATITUDE, as a sequence indexed by Kp + 1
KP_TO_LATITUDE == <<66, 64, 62, 60, 58, 55, 50, 45, 40, 35>>

Min2(a, b) == IF a <= b THEN a ELSE b
Max2(a, b) == IF a >= b THEN a ELSE b
Abs(x) == IF x < 0 THEN -x ELSE x
SetMax(S) == CHOOSE m \in S : \A x \in S : x <= m

\* int(kp) for a Kp >= 0 in hundredths
KpInt(kp) == kp \div 100

\* round(kp, 1): hundredths to tenths. The feed's values lie on the grid x.00, x.33,
\* x.67, so no value is halfway between two tenths.
RoundKp(kp) == (kp + 5) \div 10

\* _kp_to_visible_latitude
KpToVisibleLatitude(kp) == KP_TO_LATITUDE[Min2(9, Max2(0, KpInt(kp))) + 1]

\* _get_activity_level
GetActivityLevel(kp) ==
    IF kp >= 700 THEN "Storm"
    ELSE IF kp >= 500 THEN "Active"
    ELSE IF kp >= 300 THEN "Unsettled"
    ELSE "Quiet"

\* _get_storm_level
GetStormLevel(kp) ==
    IF KpInt(kp) >= 5
    THEN (IF KpInt(kp) <= 9 THEN <<"G1", "G2", "G3", "G4", "G5">>[KpInt(kp) - 4] ELSE "G1")
    ELSE "G0"

\* _calculate_visibility_probability
CalculateVisibilityProbability(user_lat, visible_lat, kp) ==
    LET abs_lat == Abs(user_lat)
        lat_diff == visible_lat - abs_lat
    IN IF abs_lat >= visible_lat
       THEN Min2(100, 80 + Min2(20, (abs_lat - visible_lat) * 2))
       ELSE IF lat_diff > 20 THEN 0
       ELSE IF lat_diff > 15 THEN 5
       ELSE IF lat_diff > 10 THEN 10 + ((kp * 2) \div 100)
       ELSE IF lat_diff > 5 THEN 25 + ((kp * 5) \div 100)
       ELSE 50 + ((kp * 5) \div 100)

\* _get_best_viewing_time (the advice, by its case)
GetBestViewingTime(kp) ==
    IF kp >= 500 THEN "Active now"
    ELSE IF kp >= 300 THEN "midnight to 3am"
    ELSE "midnight to 4am"

\* The AuroraForecast get_aurora_forecast builds from the two Kp values.
MakeForecast(lat, kp_current, kp_24h_max) ==
    LET visible_lat == KpToVisibleLatitude(kp_current)
    IN [kp_current |-> RoundKp(kp_current),
        kp_24h_max |-> RoundKp(kp_24h_max),
        geomagnetic_storm |-> (kp_current >= 500),
        storm_level |-> GetStormLevel(kp_current),
        visibility_probability |-> CalculateVisibilityProbability(lat, visible_lat, kp_current),
        visible_latitude |-> visible_lat,
        best_time |-> GetBestViewingTime(kp_current),
        activity_level |-> GetActivityLevel(kp_current)]

\* The Kp cell of a reading: a number (or numeric string), a string float() cannot
\* parse, or null.
KpCells ==
    {[t |-> "num", v |-> v] : v \in {133, 400, 567}} \cup {[t |-> "bad"], [t |-> "null"]}

\* A row of the feed: a list with only the time tag (len 1), a list with a Kp column
\* (len 4), or a JSON value that is not a list.
KpRows ==
    {[t |-> "list", len |-> 4, kp |-> c] : c \in KpCells}
    \cup {[t |-> "list", len |-> 1], [t |-> "number"]}

HeaderRow == [t |-> "list", len |-> 4, kp |-> [t |-> "bad"]]

RowLists == UNION {[1..n -> KpRows] : n \in 0..MaxReadings}

Repeat(r, n) == [i \in 1..n |-> r]

\* The decoded bodies: an array that is empty, or is the header followed by readings.
\* Long feeds are an old reading repeated KpWindow - 1 times before the last readings.
KpArrays ==
    {<<>>}
    \cup {<<HeaderRow>> \o l : l \in RowLists}
    \cup {<<HeaderRow>> \o Repeat(r, KpWindow - 1) \o l : r \in KpRows, l \in RowLists}

\* What urlopen / response.read() / json.loads do in one call.
KpFeedOutcomes ==
    {[kind |-> k] : k \in {"URLError", "TimeoutError", "JSONDecodeError"}}
    \cup {[kind |-> "json", type |-> t] : t \in {"null", "number"}}
    \cup {[kind |-> "json", type |-> "array", rows |-> a] : a \in KpArrays}

\* except (urllib.error.URLError, json.JSONDecodeError, ValueError, TimeoutError, IndexError)
AuroraCaught == {"URLError", "JSONDecodeError", "ValueError", "TimeoutError", "IndexError"}

\* The exception `float(r[1]) ... if len(r) > 1` raises for a row, "" if none.
KpRowError(r) ==
    IF r.t # "list" THEN "TypeError"
    ELSE IF r.len > 1
         THEN (IF r.kp.t = "bad" THEN "ValueError"
               ELSE IF r.kp.t = "null" THEN "TypeError"
               ELSE "")
    ELSE ""

LastN(seq, n) == SubSeq(seq, Len(seq) - n + 1, Len(seq))

\* The try block of get_aurora_forecast: the two Kp values when control leaves it,
\* and the exception that ended it ("" if it ran to its end).
ParseKpFeed(feed) ==
    LET defaults(e) == [cur |-> KP_DEFAULT_CURRENT, max |-> KP_DEFAULT_MAX, exc |-> e]
    IN IF feed.kind # "json" THEN defaults(feed.kind)
       ELSE IF feed.type # "array" THEN defaults("TypeError")
       ELSE IF Len(feed.rows) <= 1 THEN defaults("")
       ELSE
         LET readings == Tail(feed.rows)
             latest == readings[Len(readings)]
         IN IF KpRowError(latest) # "" THEN defaults(KpRowError(latest))
            ELSE
              LET cur == IF latest.len > 1 THEN latest.kp.v ELSE KP_DEFAULT_CURRENT
                  recent == IF Len(readings) >= KpWindow THEN LastN(readings, KpWindow)
                            ELSE readings
                  bad == {i \in DOMAIN recent : KpRowError(recent[i]) # ""}
                  kp_values == {recent[i].kp.v : i \in {j \in DOMAIN recent : recent[j].len > 1}}
              IN IF bad # {}
                 THEN [cur |-> cur, max |-> KP_DEFAULT_MAX,
                       exc |-> KpRowError(recent[CHOOSE i \in bad : \A j \in bad : i <= j])]
                 ELSE [cur |-> cur,
                       max |-> IF kp_values # {} THEN SetMax(kp_values) ELSE cur,
                       exc |-> ""]

\* get_aurora_forecast
GetAuroraForecastResult(lat, feed) ==
    LET p == ParseKpFeed(feed)
    IN IF p.exc # "" /\ p.exc \notin AuroraCaught THEN Raised(p.exc)
       ELSE Returned(MakeForecast(lat, p.cur, p.max))

AuroraLats == {-70, 0, 41, 52}

GetAuroraForecast ==
    /\ au_pc = "idle"
    /\ \E lat \in AuroraLats, feed \in KpFeedOutcomes :
        /\ au_in' = [lat |-> lat, feed |-> feed]
        /\ au_out' = GetAuroraForecastResult(lat, feed)
    /\ au_pc' = "done"
    /\ UNCHANGED exceptAurora

\* C5 as stated: get_aurora_forecast never raises, and whenever the fetch/parse step
\* fails at any point the forecast is the one derived from kp_current = 2.0 and
\* kp_24h_max = 3.0, both defaults together.
C5_AuroraDefaultsOnFailure ==
    au_pc = "done" =>
        /\ au_out.kind = "return"
        /\ ParseKpFeed(au_in.feed).exc # "" =>
               au_out = Returned(MakeForecast(au_in.lat, KP_DEFAULT_CURRENT, KP_DEFAULT_MAX))

\* C28 as stated: in every forecast get_aurora_forecast returns, kp_24h_max is at
\* least kp_current, whatever the feed answered and wherever the fetch/parse failed.
C28_KpMaxAtLeastCurrent ==
    (au_pc = "done" /\ au_out.kind = "return") =>
        au_out.value.kp_24h_max >= au_out.value.kp_current

\* The Kp values the probability is compared at, in hundredths, from 0 to 9
KpGrid == {0, 133, 300, 500, 567, 600, 633, 700, 833, 900}

\* Whole-degree latitudes, both hemispheres
Latitudes == -90..90

\* The probability get_aurora_forecast derives for a latitude from kp_current
VisibilityProbabilityAt(lat, kp) ==
    CalculateVisibilityProbability(lat, KpToVisibleLatitude(kp), kp)

\* Two observers under the same Kp, the second at least as far from the equator
\* as the first: the probability of each.
CompareVisibility ==
    /\ vp_pc = "idle"
    /\ \E kp \in KpGrid, lat \in Latitudes, poleward \in Latitudes :
        /\ Abs(lat) <= Abs(poleward)
        /\ vp_in' = [kp |-> kp, lat |-> lat, poleward |-> poleward]
        /\ vp_out' = Returned([lat |-> VisibilityProbabilityAt(lat, kp),
                               poleward |-> VisibilityProbabilityAt(poleward, kp)])
    /\ vp_pc' = "done"
    /\ UNCHANGED exceptProb

\* C29 as stated: for a fixed Kp the visibility probability never decreases as the
\* absolute latitude increases, the visible-latitude boundary included.
C29_ProbabilityMonotoneInLatitude ==
    vp_pc = "done" => vp_out.value.lat <= vp_out.value.poleward


(***************************************************************************)
(* Observing conditions: skycli/sources/weather.py                         *)
(* Visibility (km), wind speed and temperature are in tenths.              *)
(***************************************************************************)
CLOUD_EXCELLENT_MAX == 10
CLOUD_GOOD_MAX == 30
CLOUD_FAIR_MAX == 60

\* _calculate_condition; visibility in tenths of a km
CalculateCondition(cloud_cover, humidity, visibility) ==
    IF cloud_cover >= 80 THEN "Poor"
    ELSE IF cloud_cover >= CLOUD_FAIR_MAX THEN "Fair"
    ELSE
      LET cloud_score == IF cloud_cover < CLOUD_EXCELLENT_MAX THEN 3
                         ELSE IF cloud_cover < CLOUD_GOOD_MAX THEN 2
                         ELSE 1
          humidity_score == IF humidity < 50 THEN 2 ELSE IF humidity < 70 THEN 1 ELSE 0
          visibility_score == IF visibility >= 200 THEN 2
                              ELSE IF visibility >= 100 THEN 1
                              ELSE 0
          score == cloud_score + humidity_score + visibility_score
      IN IF score >= 6 THEN "Excellent"
         ELSE IF score >= 4 THEN "Good"
         ELSE IF score >= 2 THEN "Fair"
         ELSE "Poor"

\* _generate_summary of weather.py: the phrases it joins, in order
WeatherSummary(cloud_cover, humidity, visibility, wind_speed, condition) ==
    <<IF cloud_cover < 10 THEN "Clear skies"
      ELSE IF cloud_cover < 30 THEN "Mostly clear"
      ELSE IF cloud_cover < 60 THEN "Partly cloudy"
      ELSE IF cloud_cover < 80 THEN "Mostly cloudy"
      ELSE "Overcast">>
    \o (IF humidity > 80 THEN <<"hazy conditions">>
        ELSE IF humidity < 40 /\ visibility > 200 THEN <<"excellent transparency">>
        ELSE <<>>)
    \o (IF wind_speed > 300 THEN <<"windy">>
        ELSE IF wind_speed > 200 THEN <<"breezy">>
        ELSE <<>>)
    \o <<IF condition = "Excellent" THEN "Perfect for deep sky observing!"
         ELSE IF condition = "Good" THEN "Good night for astronomy."
         ELSE IF condition = "Fair" THEN "Planets and bright objects visible."
         ELSE "Consider rescheduling observations.">>

\* The fallback record of the except branch
UnknownConditions ==
    [cloud_cover |-> -1, humidity |-> -1, visibility |-> -1, wind_speed |-> -1,
     temperature |-> -1, condition |-> "Unknown",
     summary |-> <<"Weather data unavailable. Check local conditions.">>]

\* One field of the payload's "current" object: not there, null, a string that is
\* no number, or a number.
Absent == [t |-> "absent"]
Null == [t |-> "null"]
NotNumber == [t |-> "str"]
Num(v) == [t |-> "num", v |-> v]

FieldValues(nums) == {Absent, Null, NotNumber} \cup {Num(v) : v \in nums}

\* current.get(key, default)
GetField(f, default) == IF f.t = "absent" THEN Num(default) ELSE f

\* int(x) of a cloud cover or humidity: TypeError for null, ValueError for a
\* string that is no number.
IntError(f) == IF f.t = "null" THEN "TypeError" ELSE IF f.t = "str" THEN "ValueError" ELSE ""

\* x / 1000 and round(x, 1): TypeError for null and for a string.
ArithError(f) == IF f.t \in {"null", "str"} THEN "TypeError" ELSE ""

\* round(visibility_m / 1000, 1), as tenths of a km. The model's values of
\* visibility_m are not halfway between two tenths.
MetresToKm(visibility_m) == (visibility_m + 50) \div 100

CurrentObjects ==
    [cloud_cover : FieldValues({5, 45, 85}),
     relative_humidity_2m : FieldValues({35, 90}),
     visibility : FieldValues({24140, 4000}),
     wind_speed_10m : FieldValues({252}),
     temperature_2m : FieldValues({-35})]

\* What urlopen / response.read() / json.loads do in one call. A decoded body is
\* an object whose "current" is missing, null or an object, or it is no object.
WeatherFeedOutcomes ==
    {[kind |-> k] : k \in {"URLError", "TimeoutError", "JSONDecodeError"}}
    \cup {[kind |-> "json", type |-> t] : t \in {"array", "null"}}
    \cup {[kind |-> "json", type |-> "object", current |-> None]}
    \cup {[kind |-> "json", type |-> "object", current |-> Some(Null)]}
    \cup {[kind |-> "json", type |-> "object", current |-> Some(c)] : c \in CurrentObjects}

\* except (urllib.error.URLError, json.JSONDecodeError, KeyError, TimeoutError)
WeatherCaught == {"URLError", "JSONDecodeError", "KeyError", "TimeoutError"}

FirstError(errors) ==
    LET bad == {i \in DOMAIN errors : errors[i] # ""}
    IN IF bad = {} THEN "" ELSE errors[CHOOSE i \in bad : \A j \in bad : i <= j]

\* The fields of "current" after the .get defaults; all absent when the payload
\* has no "current".
CurrentFields(feed) ==
    LET c == IF feed.current = None
             THEN [cloud_cover |-> Absent, relative_humidity_2m |-> Absent,
                   visibility |-> Absent, wind_speed_10m |-> Absent,
                   temperature_2m |-> Absent]
             ELSE TheVal(feed.current)
    IN [cloud_cover |-> GetField(c.cloud_cover, 50),
        humidity |-> GetField(c.relative_humidity_2m, 50),
        visibility_m |-> GetField(c.visibility, 10000),
        wind_speed |-> GetField(c.wind_speed_10m, 0),
        temperature |-> GetField(c.temperature_2m, 150)]

\* The exception that ends the try block of get_observing_conditions, "" if it
\* reaches its return.
WeatherTryError(feed) ==
    IF feed.kind # "json" THEN feed.kind
    ELSE IF feed.type # "object" THEN "AttributeError"
    ELSE IF feed.current = Some(Null) THEN "AttributeError"
    ELSE LET f == CurrentFields(feed)
         IN FirstError(<<IntError(f.cloud_cover), IntError(f.humidity),
                         ArithError(f.visibility_m), ArithError(f.wind_speed),
                         ArithError(f.temperature)>>)

\* The ObservingConditions built on the success path
MakeConditions(feed) ==
    LET f == CurrentFields(feed)
        cloud_cover == f.cloud_cover.v
        humidity == f.humidity.v
        visibility == MetresToKm(f.visibility_m.v)
        wind_speed == f.wind_speed.v
        condition == CalculateCondition(cloud_cover, humidity, visibility)
    IN [cloud_cover |-> cloud_cover, humidity |-> humidity, visibility |-> visibility,
        wind_speed |-> wind_speed, temperature |-> f.temperature.v,
        condition |-> condition,
        summary |-> WeatherSummary(cloud_cover, humidity, visibility, wind_speed, condition)]

\* get_observing_conditions
GetObservingConditionsResult(feed) ==
    LET e == WeatherTryError(feed)
    IN IF e = "" THEN Returned(MakeConditions(feed))
       ELSE IF e \in WeatherCaught THEN Returned(UnknownConditions)
       ELSE Raised(e)

GetObservingConditions ==
    /\ wx_pc = "idle"
    /\ \E feed \in WeatherFeedOutcomes :
        /\ wx_in' = [feed |-> feed]
        /\ wx_out' = GetObservingConditionsResult(feed)
    /\ wx_pc' = "done"
    /\ UNCHANGED exceptWeather

\* The weather feed failed: no answer, a body that is not JSON, a body that is not
\* an object with a "current" object, or a field that is missing, null or no number.
WeatherFeedFailed(feed) ==
    \/ feed.kind # "json"
    \/ feed.type # "object"
    \/ feed.current = None
    \/ feed.current = Some(Null)
    \/ \E k \in DOMAIN TheVal(feed.current) : TheVal(feed.current)[k].t # "num"

\* C6 as stated: get_observing_conditions never raises, and on any failure of the
\* weather feed it returns the Unknown record (condition "Unknown", numbers -1).
C6_WeatherUnknownOnFailure ==
    wx_pc = "done" =>
        /\ wx_out.kind = "return"
        /\ WeatherFeedFailed(wx_in.feed) => wx_out = Returned(UnknownConditions)

\* Cloud cover in percent
CloudCovers == 0..100

\* The humidity (percent) and visibility (tenths of a km) held fixed: one value in
\* each band of the scoring
Humidities == {30, 60, 85}
Visibilities == {50, 150, 250}

\* Two skies with the same humidity and visibility, the second at least as cloudy
\* as the first: the condition of each.
CompareCondition ==
    /\ cc_pc = "idle"
    /\ \E humidity \in Humidities, visibility \in Visibilities,
          cloud_cover \in CloudCovers, cloudier \in CloudCovers :
        /\ cloud_cover <= cloudier
        /\ cc_in' = [humidity |-> humidity, visibility |-> visibility,
                     cloud_cover |-> cloud_cover, cloudier |-> cloudier]
        /\ cc_out' = Returned([cloud_cover |-> CalculateCondition(cloud_cover, humidity, visibility),
                               cloudier |-> CalculateCondition(cloudier, humidity, visibility)])
    /\ cc_pc' = "done"
    /\ UNCHANGED exceptCond

\* Poor < Fair < Good < Excellent
ConditionRank(condition) ==
    CASE condition = "Poor" -> 0
      [] condition = "Fair" -> 1
      [] condition = "Good" -> 2
      [] condition = "Excellent" -> 3

\* C30 as stated: with humidity and visibility held fixed, the condition never gets
\* better as cloud cover increases.
C30_ConditionMonotoneInCloud ==
    cc_pc = "done" =>
        ConditionRank(cc_out.value.cloudier) <= ConditionRank(cc_out.value.cloud_cover)

(***************************************************************************)
(* Astronomical events: skycli/sources/events.py                           *)
(* Instants are whole hours counted from 2025-12-20T00:00Z; the window is  *)
(* start .. start + days. The ephemeris library's answers (phase search,   *)
(* angular separations, opposition search) are inputs of the call.         *)
(***************************************************************************)

\* Longest window, in days, the model enumerates.
MaxDays == 2

HoursPerDay == 24

\* CONJUNCTION_THRESHOLD = 5.0 degrees, in tenths
CONJUNCTION_THRESHOLD == 50

\* 2026-01-01T00:00Z
NewYear2026 == 288

EVENT_PLANETS == <<"Mercury", "Venus", "Mars", "Jupiter", "Saturn", "Uranus", "Neptune">>
\* the outer planets with an inner planet searched as well
OuterPlanetsWithVenus == <<"Venus", "Mars", "Jupiter", "Saturn", "Uranus", "Neptune">>

OUTER_PLANETS == <<"Mars", "Jupiter", "Saturn", "Uranus", "Neptune">>

DayOf(t) == t \div HoursPerDay
YearOf(t) == IF t < NewYear2026 THEN 2025 ELSE 2026
MonthOf(t) == IF t < NewYear2026 THEN 12 ELSE 1

\* FULL_MOON_NAMES, for the months the model's instants fall in
FullMoonName(month) == IF month = 12 THEN "Cold Moon" ELSE "Wolf Moon"

\* astronomy.Seasons(year): March equinox, June solstice, September equinox,
\* December solstice
SeasonsOf(year) ==
    IF year = 2025 THEN <<-6591, -4366, -2118, 39>> ELSE <<2174, 4400, 6648, 8804>>

SeasonKinds ==
    <<[type |-> "equinox", title |-> "March Equinox"],
      [type |-> "solstice", title |-> "June Solstice (Summer)"],
      [type |-> "equinox", title |-> "September Equinox"],
      [type |-> "solstice", title |-> "December Solstice (Winter)"]>>

AstroEvent(type, date, title, bodies) ==
    [type |-> type, date |-> date, title |-> title, bodies |-> bodies]

\* The instants the start argument takes: 2025-12-20 at 00:00, 12:00 and 20:00,
\* and 2025-12-31 at 12:00.
StartTimes == {0, 12, 20, 276}

\* How long after start the phase search finds the full moon and the new moon, when
\* it finds them.
PhaseOffsets == {6, 30}
NewMoonOffsets == {6}

\* What the opposition search answers for a planet, were it asked: an instant near
\* (20 hours after start, inside the window), far (5000 hours after start, long after
\* the window) or before (an hour before start), or it raises. Every planet not
\* listed is answered far.
OppositionAnswers ==
    {f \in [{"Venus", "Mars", "Jupiter"} -> {"near", "far", "before", "raise"}] :
        /\ f["Venus"] \in {"near", "far"}
        /\ f["Mars"] \in {"near", "before", "raise"}
        /\ f["Jupiter"] \in {"near", "far"}}

\* The pairs of bodies that come close in the model; every other pair is far apart
\* (90.0 degrees).
ClosePairs == {<<"Venus", "Moon">>, <<"Venus", "Saturn">>}

\* The separations at the noon samples of a window: the Moon's separation from Venus
\* changes from day to day, that of the two planets stays on one side of the
\* threshold through the window.
SampledAngles(days) ==
    {a \in [0..(days - 1) -> [ClosePairs -> {CONJUNCTION_THRESHOLD, CONJUNCTION_THRESHOLD + 1}]] :
        \A o \in 0..(days - 1) : a[o][<<"Venus", "Saturn">>] = a[0][<<"Venus", "Saturn">>]}

\* The library's answers during one call:
\*   full, new: SearchMoonPhase's answer, None or the hours after start (within days);
\*   angle: per sampled day and close pair, the separation in tenths of a degree;
\*   opp: per planet, the search finds an opposition near, far or before, or raises;
\*   fail: the sub-search in which the library raises, "" if in none.
EventAnswers(days) ==
    [full : {None} \cup {Some(o) : o \in {x \in PhaseOffsets : x <= days * HoursPerDay}},
     new : {None} \cup {Some(o) : o \in {x \in NewMoonOffsets : x <= days * HoursPerDay}},
     angle : SampledAngles(days),
     opp : OppositionAnswers,
     fail : {"", "moon", "conjunction", "seasonal"}]

\* _find_moon_phases
FindMoonPhases(start, days, env) ==
    LET end == start + days * HoursPerDay
        full == IF env.full # None /\ start + TheVal(env.full) <= end
                THEN <<AstroEvent("moon_phase", start + TheVal(env.full),
                                  <<"Full Moon", FullMoonName(MonthOf(start + TheVal(env.full)))>>,
                                  <<"Moon">>)>>
                ELSE <<>>
        new == IF env.new # None /\ start + TheVal(env.new) <= end
               THEN <<AstroEvent("moon_phase", start + TheVal(env.new), <<"New Moon">>, <<"Moon">>)>>
               ELSE <<>>
    IN full \o new

\* _angle_between, at the noon sample of the day offset days after start
AngleBetween(env, offset, body1, body2) ==
    IF <<body1, body2>> \in ClosePairs THEN env.angle[offset][<<body1, body2>>] ELSE 900

\* The pairs one day's sample looks at, in the order of the two loops: every planet
\* with the Moon, then every planet with each later planet.
PairOrder ==
    [i \in 1..7 |-> <<EVENT_PLANETS[i], "Moon">>]
    \o [k \in 1..21 |->
          LET i == CHOOSE a \in 1..6 :
                     /\ k > (a - 1) * 7 - ((a - 1) * a) \div 2
                     /\ k <= a * 7 - (a * (a + 1)) \div 2
              j == i + (k - ((i - 1) * 7 - ((i - 1) * i) \div 2))
          IN <<EVENT_PLANETS[i], EVENT_PLANETS[j]>>]

\* check_time: 12:00 of the calendar day of start + day_offset days
CheckTime(start, offset) == DayOf(start + offset * HoursPerDay) * HoursPerDay + 12

RECURSIVE ConjunctionsOfDay(_, _, _, _)
ConjunctionsOfDay(start, env, offset, k) ==
    IF k > Len(PairOrder) THEN <<>>
    ELSE LET pair == PairOrder[k]
             found == AngleBetween(env, offset, pair[1], pair[2]) <= CONJUNCTION_THRESHOLD
         IN (IF found
             THEN <<AstroEvent("conjunction", CheckTime(start, offset),
                               <<pair[1], pair[2], "Conjunction">>, <<pair[1], pair[2]>>)>>
             ELSE <<>>)
            \o ConjunctionsOfDay(start, env, offset, k + 1)

RECURSIVE ConjunctionsFrom(_, _, _, _)
ConjunctionsFrom(start, days, env, offset) ==
    IF offset >= days THEN <<>>
    ELSE ConjunctionsOfDay(start, env, offset, 1) \o ConjunctionsFrom(start, days, env, offset + 1)

\* a key without the calendar date: the sorted bodies only
DedupKeyBodiesOnly(e) == {e.bodies[i] : i \in DOMAIN e.bodies}

\* key = (event["date"].date(), tuple(sorted(event["bodies"])))
DedupKey(e) == <<DayOf(e.date), {e.bodies[i] : i \in DOMAIN e.bodies}>>

RECURSIVE Deduplicate(_, _)
Deduplicate(events, seen) ==
    IF events = <<>> THEN <<>>
    ELSE IF DedupKey(Head(events)) \in seen THEN Deduplicate(Tail(events), seen)
    ELSE <<Head(events)>> \o Deduplicate(Tail(events), seen \cup {DedupKey(Head(events))})

\* _find_conjunctions
FindConjunctions(start, days, env) == Deduplicate(ConjunctionsFrom(start, days, env, 0), {})

RECURSIVE OppositionsFrom(_, _, _, _)
OppositionsFrom(start, days, env, k) ==
    IF k > Len(OUTER_PLANETS) THEN <<>>
    ELSE LET planet == OUTER_PLANETS[k]
             answer == IF planet \in DOMAIN env.opp THEN env.opp[planet] ELSE "far"
             event_date == start + (CASE answer = "near" -> 20
                                      [] answer = "before" -> -1
                                      [] OTHER -> 5000)
             end_date == start + days * HoursPerDay
         IN (IF answer # "raise" /\ start <= event_date /\ event_date <= end_date
             THEN <<AstroEvent("opposition", event_date, <<planet, "at Opposition">>, <<planet>>)>>
             ELSE <<>>)
            \o OppositionsFrom(start, days, env, k + 1)

FindOppositionsAllOrNothing(start, days, env) ==
    IF \E planet \in DOMAIN env.opp : env.opp[planet] = "raise" THEN <<>>
    ELSE OppositionsFrom(start, days, env, 1)

\* _find_oppositions
FindOppositions(start, days, env) == OppositionsFrom(start, days, env, 1)

SeasonalOfYear(start, end, year) ==
    LET hit(i) == start <= SeasonsOf(year)[i] /\ SeasonsOf(year)[i] <= end
        one(i) == IF hit(i)
                  THEN <<AstroEvent(SeasonKinds[i].type, SeasonsOf(year)[i],
                                    <<SeasonKinds[i].title>>, <<"Sun">>)>>
                  ELSE <<>>
    IN one(1) \o one(2) \o one(3) \o one(4)

\* _find_seasonal_events
FindSeasonalEvents(start, days) ==
    LET end == start + days * HoursPerDay
    IN SeasonalOfYear(start, end, YearOf(start))
       \o (IF YearOf(end) # YearOf(start) THEN SeasonalOfYear(start, end, YearOf(end)) ELSE <<>>)

RECURSIVE InsertByDate(_, _)
InsertByDate(sorted, e) ==
    IF sorted = <<>> THEN <<e>>
    ELSE IF e.date < Head(sorted).date THEN <<e>> \o sorted
    ELSE <<Head(sorted)>> \o InsertByDate(Tail(sorted), e)

RECURSIVE SortByDate(_)
\* sorted(events, key=lambda e: e["date"]): stable, ascending by date
SortByDate(events) ==
    IF events = <<>> THEN <<>>
    ELSE InsertByDate(SortByDate(SubSeq(events, 1, Len(events) - 1)), events[Len(events)])

\* The four sub-searches in the order get_upcoming_events runs them: what each
\* returns, or that it raised.
EventSearches(start, days, env) ==
    <<IF env.fail = "moon" THEN Raised("Error") ELSE Returned(FindMoonPhases(start, days, env)),
      IF env.fail = "conjunction" THEN Raised("Error") ELSE Returned(FindConjunctions(start, days, env)),
      Returned(FindOppositions(start, days, env)),
      IF env.fail = "seasonal" THEN Raised("Error") ELSE Returned(FindSeasonalEvents(start, days))>>

RECURSIVE FoundBeforeFailure(_, _)
\* The events the list holds when the first failing search raises (all, if none does).
FoundBeforeFailure(searches, k) ==
    IF k > Len(searches) \/ searches[k].kind = "raise" THEN <<>>
    ELSE searches[k].value \o FoundBeforeFailure(searches, k + 1)

GetUpcomingEventsKeepsFound(start, days, env) ==
    Returned(SortByDate(FoundBeforeFailure(EventSearches(start, days, env), 1)))

\* get_upcoming_events: the try block, and except Exception: return []
GetUpcomingEventsResult(start, days, env) ==
    LET searches == EventSearches(start, days, env)
    IN IF \E k \in DOMAIN searches : searches[k].kind = "raise"
       THEN Returned(<<>>)
       ELSE Returned(SortByDate(FoundBeforeFailure(searches, 1)))

GetUpcomingEvents ==
    /\ ev_pc = "idle"
    /\ \E start \in StartTimes, days \in 1..MaxDays :
         \E env \in EventAnswers(days) :
            /\ ev_in' = [start |-> start, days |-> days, env |-> env]
            /\ ev_out' = GetUpcomingEventsResult(start, days, env)
    /\ ev_pc' = "done"
    /\ UNCHANGED exceptEvents

\* C7: get_upcoming_events never raises, and when the moon-phase, conjunction or
\* seasonal search fails the result is exactly the empty list: events an earlier
\* sub-search of the same call found are not returned.
C7_EventsEmptyOnFailure ==
    ev_pc = "done" =>
        /\ ev_out.kind = "return"
        /\ ev_in.env.fail # "" => ev_out.value = <<>>

\* C7 witness: the seasonal search fails after the moon-phase and conjunction
\* searches found events, and the call returns the empty list.
C7_Witness ==
    /\ ev_pc = "done"
    /\ ev_in.env.fail = "seasonal"
    /\ FindMoonPhases(ev_in.start, ev_in.days, ev_in.env) # <<>>
    /\ FindConjunctions(ev_in.start, ev_in.days, ev_in.env) # <<>>
    /\ FindOppositions(ev_in.start, ev_in.days, ev_in.env) # <<>>
    /\ ev_out = Returned(<<>>)

\* The events of a list, as a set
EventsIn(events) == {events[i] : i \in DOMAIN events}

\* The outer planets whose opposition search raises in the call
FailingPlanets ==
    {OUTER_PLANETS[k] : k \in {i \in DOMAIN OUTER_PLANETS :
        OUTER_PLANETS[i] \in DOMAIN ev_in.env.opp /\ ev_in.env.opp[OUTER_PLANETS[i]] = "raise"}}

\* The outer planets whose opposition the search finds inside the window
PlanetsAtOpposition ==
    {OUTER_PLANETS[k] : k \in {i \in DOMAIN OUTER_PLANETS :
        OUTER_PLANETS[i] \in DOMAIN ev_in.env.opp /\ ev_in.env.opp[OUTER_PLANETS[i]] = "near"}}

\* C25: when the opposition search fails for an outer planet (and no other search
\* fails), get_upcoming_events still returns the oppositions of the other outer
\* planets and every moon-phase, conjunction and seasonal event, in ascending date
\* order, and no opposition of the failing planet.
C25_OppositionFailureIsolated ==
    (ev_pc = "done" /\ ev_in.env.fail = "" /\ FailingPlanets # {}) =>
        /\ ev_out.kind = "return"
        /\ EventsIn(FindMoonPhases(ev_in.start, ev_in.days, ev_in.env))
               \subseteq EventsIn(ev_out.value)
        /\ EventsIn(FindConjunctions(ev_in.start, ev_in.days, ev_in.env))
               \subseteq EventsIn(ev_out.value)
        /\ EventsIn(FindSeasonalEvents(ev_in.start, ev_in.days))
               \subseteq EventsIn(ev_out.value)
        /\ {e.bodies : e \in {x \in EventsIn(ev_out.value) : x.type = "opposition"}}
               = {<<planet>> : planet \in PlanetsAtOpposition}
        /\ \A i, j \in DOMAIN ev_out.value :
               i < j => ev_out.value[i].date <= ev_out.value[j].date

\* C25 witness: the search fails for Mars while Jupiter is at opposition in the
\* window and the other searches found events; Jupiter's opposition is returned.
C25_Witness ==
    /\ ev_pc = "done"
    /\ ev_in.env.fail = ""
    /\ "Mars" \in FailingPlanets
    /\ "Jupiter" \in PlanetsAtOpposition
    /\ FindMoonPhases(ev_in.start, ev_in.days, ev_in.env) # <<>>
    /\ FindConjunctions(ev_in.start, ev_in.days, ev_in.env) # <<>>
    /\ \E e \in EventsIn(ev_out.value) : e.type = "opposition" /\ e.bodies = <<"Jupiter">>
    /\ \E e \in EventsIn(ev_out.value) : e.type = "conjunction"

\* The positions of the returned conjunction events of one pair of bodies.
ConjunctionsOfPair(pair) ==
    {i \in DOMAIN ev_out.value :
        ev_out.value[i].type = "conjunction" /\ ev_out.value[i].bodies = pair}

\* The pair is within the threshold at the noon sample of the day offset days after start.
CloseAtSample(pair, offset) ==
    AngleBetween(ev_in.env, offset, pair[1], pair[2]) <= CONJUNCTION_THRESHOLD

\* C12 as stated: a pair within the threshold at the noon samples of consecutive days
\* of the window is reported as a single conjunction event.
C12_Original ==
    (ev_pc = "done" /\ ev_in.env.fail = "") =>
        \A pair \in ClosePairs :
            (\E o \in 0..(ev_in.days - 2) : CloseAtSample(pair, o) /\ CloseAtSample(pair, o + 1))
                => Cardinality(ConjunctionsOfPair(pair)) = 1

\* C12: when no search fails, a pair of bodies has exactly one conjunction event for
\* every sampled day at whose noon it is within the threshold, dated that noon, and
\* none for any other day: events of a pair on different days are not collapsed.
C12_OneConjunctionPerSampledDay ==
    (ev_pc = "done" /\ ev_in.env.fail = "") =>
        \A pair \in ClosePairs :
            /\ \A o \in 0..(ev_in.days - 1) :
                 Cardinality({i \in ConjunctionsOfPair(pair) :
                                ev_out.value[i].date = CheckTime(ev_in.start, o)})
                   = IF CloseAtSample(pair, o) THEN 1 ELSE 0
            /\ \A i \in ConjunctionsOfPair(pair) :
                 \E o \in 0..(ev_in.days - 1) : ev_out.value[i].date = CheckTime(ev_in.start, o)

\* A pair is close at the noon samples of two consecutive days and two conjunction
\* events of that pair are returned.
C12_Witness ==
    /\ ev_pc = "done"
    /\ ev_in.env.fail = ""
    /\ \E pair \in ClosePairs :
        /\ \E o \in 0..(ev_in.days - 2) : CloseAtSample(pair, o) /\ CloseAtSample(pair, o + 1)
        /\ Cardinality(ConjunctionsOfPair(pair)) = 2


\* C13: every event get_upcoming_events returns is dated within the window, from
\* start to start + days.
C13_EventDatesInWindow ==
    ev_pc = "done" =>
        \A i \in DOMAIN ev_out.value :
            /\ ev_in.start <= ev_out.value[i].date
            /\ ev_out.value[i].date <= ev_in.start + ev_in.days * HoursPerDay

\* C19: every opposition event returned names exactly one body, an outer planet
\* (never Mercury or Venus), and is dated within the window.
C19_OppositionsOuterInWindow ==
    ev_pc = "done" =>
        \A i \in DOMAIN ev_out.value :
            ev_out.value[i].type = "opposition" =>
                /\ Len(ev_out.value[i].bodies) = 1
                /\ ev_out.value[i].bodies[1] \in {"Mars", "Jupiter", "Saturn", "Uranus", "Neptune"}
                /\ ev_in.start <= ev_out.value[i].date
                /\ ev_out.value[i].date <= ev_in.start + ev_in.days * HoursPerDay

\* The library would place Venus' opposition in the window and finds that of Mars
\* before start; the call returns Jupiter's opposition and neither of the others.
C19_Witness ==
    /\ ev_pc = "done"
    /\ ev_in.env.opp["Venus"] = "near"
    /\ ev_in.env.opp["Mars"] = "before"
    /\ ev_in.env.opp["Jupiter"] = "near"
    /\ {ev_out.value[i].bodies : i \in {j \in DOMAIN ev_out.value : ev_out.value[j].type = "opposition"}}
         = {<<"Jupiter">>}

(***************************************************************************)
(* Planet visibility: skycli/sources/planets.py                            *)
(* The ephemeris answers altitudes and azimuths in tenths of a degree; the *)
(* fields of a PlanetInfo are rounded as the code rounds them.             *)
(***************************************************************************)

\* Number of planets, from the head of PLANETS, whose position the model varies.
MaxVaried == 3

PLANETS == <<"Mercury", "Venus", "Mars", "Jupiter", "Saturn", "Uranus", "Neptune">>

\* round(x, 0) of a value in tenths, in whole units: Python rounds a value halfway
\* between two integers to the even one.
RoundHalfEven(tenths) ==
    LET q == tenths \div 10
        r == tenths % 10
    IN IF r < 5 THEN q
       ELSE IF r > 5 THEN q + 1
       ELSE IF q % 2 = 0 THEN q ELSE q + 1

\* _azimuth_to_direction of planets.py, azimuth in tenths: round(azimuth / 45) % 8
PlanetDirection(azimuth) ==
    LET q == azimuth \div 450
        r == azimuth % 450
        index == IF r < 225 THEN q
                 ELSE IF r > 225 THEN q + 1
                 ELSE IF q % 2 = 0 THEN q ELSE q + 1
    IN Directions[(index % 8) + 1]

\* The altitudes the ephemeris answers: below, on and just above the horizon, and high.
PlanetAltitudes == {-200, -3, 0, 3, 5, 6, 15, 452}

\* almanac.find_discrete over the day: (hour, event) pairs, event 1 a rising
RiseSetAnswers ==
    {<<>>, <<<<6, 1>>>>, <<<<6, 1>>, <<18, 0>>>>, <<<<3, 0>>, <<9, 1>>, <<21, 0>>>>}

\* The ephemeris during one call: an altitude for each of the first MaxVaried
\* planets (the others are below the horizon), and the day's risings and settings.
PlanetAnswers ==
    [alt : [1..MaxVaried -> PlanetAltitudes], azimuth : {1125, 2250}, riseset : RiseSetAnswers]

PlanetAltitude(env, i) == IF i <= MaxVaried THEN env.alt[i] ELSE -200

\* The last rising (event = 1) or setting of the day, None if there is none
LastEvent(riseset, rising) ==
    LET hits == {i \in DOMAIN riseset : (riseset[i][2] = 1) = rising}
    IN IF hits = {} THEN None ELSE Some(riseset[CHOOSE i \in hits : \A j \in hits : j <= i][1])

\* The PlanetInfo appended for a planet above the horizon
MakePlanetInfo(name, altitude, azimuth, riseset) ==
    [name |-> name,
     direction |-> PlanetDirection(azimuth),
     azimuth |-> azimuth,
     altitude |-> RoundHalfEven(altitude),
     rise_time |-> LastEvent(riseset, TRUE),
     set_time |-> LastEvent(riseset, FALSE)]

RECURSIVE VisibleFrom(_, _)
\* The loop over PLANETS: skip a planet whose altitude is <= 0
VisibleFrom(env, i) ==
    IF i > Len(PLANETS) THEN <<>>
    ELSE (IF PlanetAltitude(env, i) <= 0 THEN <<>>
          ELSE <<MakePlanetInfo(PLANETS[i], PlanetAltitude(env, i), env.azimuth, env.riseset)>>)
         \o VisibleFrom(env, i + 1)

RECURSIVE InsertByAltitude(_, _)
InsertByAltitude(sorted, p) ==
    IF sorted = <<>> THEN <<p>>
    ELSE IF p.altitude > Head(sorted).altitude THEN <<p>> \o sorted
    ELSE <<Head(sorted)>> \o InsertByAltitude(Tail(sorted), p)

RECURSIVE SortByAltitude(_)
\* visible.sort(key=lambda p: p["altitude"], reverse=True): stable, highest first
SortByAltitude(visible) ==
    IF visible = <<>> THEN <<>>
    ELSE InsertByAltitude(SortByAltitude(SubSeq(visible, 1, Len(visible) - 1)),
                          visible[Len(visible)])

\* get_visible_planets
GetVisiblePlanetsResult(env) == Returned(SortByAltitude(VisibleFrom(env, 1)))

GetVisiblePlanets ==
    /\ pl_pc = "idle"
    /\ \E env \in PlanetAnswers :
        /\ pl_in' = [env |-> env]
        /\ pl_out' = GetVisiblePlanetsResult(env)
    /\ EphUsedBy(<<"planets">>)
    /\ pl_pc' = "done"
    /\ UNCHANGED exceptPlanets

\* C8 as stated: every entry get_visible_planets returns has an altitude field
\* strictly greater than 0.
C8_PlanetAltitudePositive ==
    pl_pc = "done" =>
        \A i \in DOMAIN pl_out.value : pl_out.value[i].altitude > 0

(***************************************************************************)
(* Deep sky objects: skycli/sources/deep_sky.py                            *)
(* Magnitudes, altitudes and min_altitude are in tenths.                   *)
(***************************************************************************)

\* Number of objects in the catalog the model loads.
CatalogSize == 3

\* MIN_ALTITUDE_DEGREES = 20.0, in tenths
MIN_ALTITUDE_DEGREES == 200
DEFAULT_DSO_LIMIT == 5

DsoIds == <<"M001", "M002", "M003", "M004", "M005">>

\* _load_catalog: objects with distinct ids and a magnitude each
Catalogs ==
    {[i \in 1..CatalogSize |-> [id |-> DsoIds[i], mag |-> m[i]]] :
        m \in [1..CatalogSize -> {16, 34}]}

DsoAltitudes == {195, 200, 204, 450}
MinAltitudes == {MIN_ALTITUDE_DEGREES, 203}
Limits == ((-1)..(CatalogSize + 1)) \cup {DEFAULT_DSO_LIMIT}

\* The DSOInfo appended for an object at or above min_altitude
MakeDsoInfo(obj, altitude, azimuth) ==
    [id |-> obj.id, mag |-> obj.mag,
     altitude |-> RoundHalfEven(altitude), azimuth |-> RoundHalfEven(azimuth)]

RECURSIVE DsoVisibleFrom(_, _, _, _)
\* The loop over the catalog: keep an object whose altitude is >= min_altitude
DsoVisibleFrom(catalog, alt, min_altitude, i) ==
    IF i > Len(catalog) THEN <<>>
    ELSE (IF alt[i] >= min_altitude THEN <<MakeDsoInfo(catalog[i], alt[i], 1805)>> ELSE <<>>)
         \o DsoVisibleFrom(catalog, alt, min_altitude, i + 1)

RECURSIVE InsertByMag(_, _)
InsertByMag(sorted, o) ==
    IF sorted = <<>> THEN <<o>>
    ELSE IF o.mag < Head(sorted).mag THEN <<o>> \o sorted
    ELSE <<Head(sorted)>> \o InsertByMag(Tail(sorted), o)

RECURSIVE SortByMag(_)
\* visible.sort(key=lambda o: o["mag"]): stable, brightest (lowest magnitude) first
SortByMag(visible) ==
    IF visible = <<>> THEN <<>>
    ELSE InsertByMag(SortByMag(SubSeq(visible, 1, Len(visible) - 1)), visible[Len(visible)])

\* seq[:limit]: the first limit elements, or all but the last -limit for a negative limit
SliceTo(seq, limit) ==
    IF limit >= 0 THEN SubSeq(seq, 1, Min2(limit, Len(seq)))
    ELSE SubSeq(seq, 1, Max2(Len(seq) + limit, 0))

SliceThenSort(visible, limit) == SortByMag(SliceTo(visible, limit))

\* visible.sort(...); return visible[:limit]
SortThenSlice(visible, limit) == SliceTo(SortByMag(visible), limit)

\* get_visible_dso
GetVisibleDsoResult(catalog, alt, limit, min_altitude) ==
    Returned(SortThenSlice(DsoVisibleFrom(catalog, alt, min_altitude, 1), limit))

GetVisibleDso ==
    /\ dso_pc = "idle"
    /\ \E catalog \in Catalogs, alt \in [1..CatalogSize -> DsoAltitudes],
          limit \in Limits, min_altitude \in MinAltitudes :
        /\ dso_in' = [catalog |-> catalog, alt |-> alt, limit |-> limit,
                      min_altitude |-> min_altitude]
        /\ dso_out' = GetVisibleDsoResult(catalog, alt, limit, min_altitude)
    /\ EphUsedBy(<<"deep_sky">>)
    /\ dso_pc' = "done"
    /\ UNCHANGED exceptDso

\* C9 as stated: for every limit and every min_altitude, each object returned has
\* an altitude field (whole degrees) >= the requested min_altitude (tenths).
C9_DsoAltitudeAtLeastMin ==
    dso_pc = "done" =>
        \A i \in DOMAIN dso_out.value : dso_out.value[i].altitude * 10 >= dso_in.min_altitude

\* The catalog objects at or above min_altitude in the call's inputs
Qualifying == {i \in 1..CatalogSize : dso_in.alt[i] >= dso_in.min_altitude}
ReturnedIds == {dso_out.value[i].id : i \in DOMAIN dso_out.value}

DsoSortedBrightest ==
    /\ \A i, j \in DOMAIN dso_out.value : i < j => dso_out.value[i].mag <= dso_out.value[j].mag
    /\ \A i, j \in DOMAIN dso_out.value : i # j => dso_out.value[i].id # dso_out.value[j].id
    /\ ReturnedIds \subseteq {dso_in.catalog[q].id : q \in Qualifying}
    /\ \A q \in Qualifying : dso_in.catalog[q].id \notin ReturnedIds =>
           \A i \in DOMAIN dso_out.value : dso_in.catalog[q].mag >= dso_out.value[i].mag

\* C10 as stated: for every integer limit the result has at most limit objects, is
\* sorted ascending by magnitude and holds the brightest qualifying objects.
C10_Original ==
    dso_pc = "done" =>
        /\ Len(dso_out.value) <= dso_in.limit
        /\ DsoSortedBrightest

\* C10 amended: for every limit >= 0 the result has min(limit, qualifying) objects,
\* and for a negative limit the qualifying objects without the faintest -limit;
\* for every limit it is sorted ascending by magnitude and no qualifying object
\* left out is brighter than one that is returned.
C10_DsoBrightestWithinLimit ==
    dso_pc = "done" =>
        /\ dso_in.limit >= 0 =>
               Len(dso_out.value) = Min2(dso_in.limit, Cardinality(Qualifying))
        /\ dso_in.limit < 0 =>
               Len(dso_out.value) = Max2(Cardinality(Qualifying) + dso_in.limit, 0)
        /\ DsoSortedBrightest

\* C10 witness: the catalog lists a fainter object before a brighter one, both
\* qualify, and limit 1 keeps the brighter one only.
C10_Witness ==
    /\ dso_pc = "done"
    /\ dso_in.limit = 1
    /\ {1, 2} \subseteq Qualifying
    /\ dso_in.catalog[1].mag > dso_in.catalog[2].mag
    /\ ReturnedIds = {dso_in.catalog[2].id}

(***************************************************************************)
(* Meteor showers: skycli/sources/meteors.py                               *)
(***************************************************************************)

\* Number of showers in the catalogs the model enumerates.
MeteorCatalogSize == 2

ShowerNames == <<"Ursids", "Quadrantids", "Perseids", "Geminids">>

MonthDay(m, d) == [month |-> m, day |-> d]

\* Active periods and peaks of the showers of a catalog (showers.json): one within
\* a month, one across the year boundary, one across two months, one whose end day
\* precedes its start day within one month.
ShowerPeriods ==
    {[active_start |-> MonthDay(12, 17), active_end |-> MonthDay(12, 26), peak |-> MonthDay(12, 22)],
     [active_start |-> MonthDay(12, 28), active_end |-> MonthDay(1, 12), peak |-> MonthDay(1, 3)],
     [active_start |-> MonthDay(7, 17), active_end |-> MonthDay(8, 24), peak |-> MonthDay(8, 12)],
     [active_start |-> MonthDay(6, 20), active_end |-> MonthDay(6, 5), peak |-> MonthDay(6, 20)]}

ShowerRates == {10, 100}

\* _load_showers: the catalog, a list of showers with distinct names
ShowerCatalogs ==
    {[i \in 1..MeteorCatalogSize |->
        [name |-> ShowerNames[i], zhr |-> z[i],
         active_start |-> p[i].active_start, active_end |-> p[i].active_end,
         peak_month |-> p[i].peak.month, peak_day |-> p[i].peak.day]] :
     p \in [1..MeteorCatalogSize -> ShowerPeriods], z \in [1..MeteorCatalogSize -> ShowerRates]}

\* The dates a caller passes: a year, a month and a day of that month.
MeteorDates ==
    [year : {2024, 2025}, month : {1, 3, 6, 7, 8, 12},
     day : {2, 3, 4, 5, 6, 11, 12, 13, 16, 17, 18, 19, 20, 21, 23, 24, 25, 26, 27, 28, 29}]

\* _is_date_in_range with the end day of a wrapping range left out
IsDateInRangeEndExclusive(date, start, end) ==
    LET month == date.month
        day == date.day
    IN  IF start.month > end.month
        THEN \/ month > start.month \/ (month = start.month /\ day >= start.day)
             \/ month < end.month \/ (month = end.month /\ day < end.day)
        ELSE /\ ~(month < start.month \/ month > end.month)
             /\ ~(month = start.month /\ day < start.day)
             /\ ~(month = end.month /\ day > end.day)

\* _is_date_in_range
IsDateInRange(date, start, end) ==
    LET month == date.month
        day == date.day
    IN  IF start.month > end.month
        THEN \/ month > start.month \/ (month = start.month /\ day >= start.day)
             \/ month < end.month \/ (month = end.month /\ day <= end.day)
        ELSE /\ ~(month < start.month \/ month > end.month)
             /\ ~(month = start.month /\ day < start.day)
             /\ ~(month = end.month /\ day > end.day)

MonthAbbrev == <<"Jan", "Feb", "Mar", "Apr", "May", "Jun", "Jul", "Aug", "Sep", "Oct", "Nov", "Dec">>

\* _format_peak_date: the month's abbreviation and the day, as the pair the string is made of
FormatPeakDate(month, day) == <<MonthAbbrev[month], day>>

\* ShowerInfo(...) of one active shower
MakeShowerInfo(date, shower) ==
    [name |-> shower.name,
     zhr |-> shower.zhr,
     peak_date |-> FormatPeakDate(shower.peak_month, shower.peak_day),
     is_peak |-> (date.month = shower.peak_month
                  /\ date.day - shower.peak_day <= 1 /\ shower.peak_day - date.day <= 1)]

\* the loop over the catalog, from shower i on
RECURSIVE ActiveFrom(_, _, _)
ActiveFrom(date, showers, i) ==
    IF i > Len(showers) THEN <<>>
    ELSE LET rest == ActiveFrom(date, showers, i + 1)
         IN  IF IsDateInRange(date, showers[i].active_start, showers[i].active_end)
             THEN <<MakeShowerInfo(date, showers[i])>> \o rest
             ELSE rest

\* active.sort(key=zhr, reverse=True): stable, highest rate first
RECURSIVE InsertByZhr(_, _)
InsertByZhr(x, sorted) ==
    IF sorted = <<>> THEN <<x>>
    ELSE IF Head(sorted).zhr >= x.zhr THEN <<Head(sorted)>> \o InsertByZhr(x, Tail(sorted))
    ELSE <<x>> \o sorted

RECURSIVE SortByZhr(_)
SortByZhr(list) ==
    IF list = <<>> THEN <<>>
    ELSE InsertByZhr(list[Len(list)], SortByZhr(SubSeq(list, 1, Len(list) - 1)))

GetActiveShowersResult(date, showers) == SortByZhr(ActiveFrom(date, showers, 1))

GetActiveShowers ==
    /\ mt_pc = "idle"
    /\ \E date \in MeteorDates, showers \in ShowerCatalogs :
        /\ mt_in' = [date |-> date, showers |-> showers]
        /\ mt_out' = Returned(GetActiveShowersResult(date, showers))
    /\ mt_pc' = "done"
    /\ UNCHANGED exceptMeteors

\* The (month, day) of the date lies in the inclusive period of the shower; a period
\* whose start month is greater than its end month runs across the year boundary.
InActivePeriod(date, shower) ==
    LET key(md) == md.month * 100 + md.day
        k == date.month * 100 + date.day
    IN  IF shower.active_start.month > shower.active_end.month
        THEN k >= key(shower.active_start) \/ k <= key(shower.active_end)
        ELSE key(shower.active_start) <= k /\ k <= key(shower.active_end)

ShowerListed(name) == \E j \in 1..Len(mt_out.value) : mt_out.value[j].name = name

\* C11: get_active_showers lists a catalog shower exactly when the date's month and
\* day lie in the shower's inclusive active period (wrapping across the year boundary
\* when the start month is greater than the end month); the year plays no part.
C11_ShowerActiveIffInRange ==
    mt_pc = "done" =>
        \A i \in 1..Len(mt_in.showers) :
            ShowerListed(mt_in.showers[i].name) <=> InActivePeriod(mt_in.date, mt_in.showers[i])

\* A shower whose period wraps is listed on its last active day, in January.
C11_Witness ==
    /\ mt_pc = "done"
    /\ \E i \in 1..Len(mt_in.showers) :
        LET sh == mt_in.showers[i]
        IN  /\ sh.active_start.month > sh.active_end.month
            /\ mt_in.date.month = sh.active_end.month
            /\ mt_in.date.day = sh.active_end.day
            /\ ShowerListed(sh.name)

(***************************************************************************)
(* Moon: get_moon_info of skycli/sources/sun_moon.py                       *)
(* Angles are in thousandths of a degree. The illumination percentage is   *)
(* (1 - |180 - angle| / 180) * 100, kept exactly as IllumUnits / 1800.     *)
(***************************************************************************)
PHASE_NEW_MOON_MAX == 22500
PHASE_WAXING_CRESCENT_MAX == 67500
PHASE_FIRST_QUARTER_MAX == 112500
PHASE_WAXING_GIBBOUS_MAX == 157500
PHASE_FULL_MOON_MAX == 202500
PHASE_WANING_GIBBOUS_MAX == 247500
PHASE_LAST_QUARTER_MAX == 292500
PHASE_WANING_CRESCENT_MAX == 337500

DARKNESS_EXCELLENT_MAX == 25
DARKNESS_GOOD_MAX == 50
DARKNESS_FAIR_MAX == 75

\* 360 degrees, 180 degrees and one percent of illumination, in the units above
FullCircle == 360000
HalfCircle == 180000
UnitsPerPercent == 1800

PhaseThresholds ==
    {PHASE_NEW_MOON_MAX, PHASE_WAXING_CRESCENT_MAX, PHASE_FIRST_QUARTER_MAX,
     PHASE_WAXING_GIBBOUS_MAX, PHASE_FULL_MOON_MAX, PHASE_WANING_GIBBOUS_MAX,
     PHASE_LAST_QUARTER_MAX, PHASE_WANING_CRESCENT_MAX}

\* almanac.moon_phase(eph, t).degrees, in [0, 360): the angles at, just below and
\* just above every threshold of the phase names, the angles at which the
\* illumination is 25, 50 and 75 percent and angles near them, and the ends.
PhaseAngles ==
    UNION {{b - 1, b, b + 1} : b \in PhaseThresholds}
    \cup {0, 1, FullCircle - 1, HalfCircle, 45000, 90000, 135000, 225000, 270000, 315000}
    \cup {44900, 44928, 315072, 89950, 270054, 134930, 225100}

\* illumination = (1 - abs(180 - phase_angle) / 180) * 100, times UnitsPerPercent
IllumUnits(phase_angle) ==
    HalfCircle - (IF phase_angle <= HalfCircle THEN HalfCircle - phase_angle
                  ELSE phase_angle - HalfCircle)

\* round(n / d, 0) for n >= 0, d > 0: Python rounds halfway cases to the even integer.
RoundRatio(n, d) ==
    LET q == n \div d
        r == n % d
    IN  IF 2 * r < d THEN q
        ELSE IF 2 * r > d THEN q + 1
        ELSE IF q % 2 = 0 THEN q ELSE q + 1

\* round(illumination, 1), in tenths of a percent
RoundedIllumination(phase_angle) == RoundRatio(IllumUnits(phase_angle) * 10, UnitsPerPercent)

\* the phase name with every window closed at its upper end
PhaseNameUpperInclusive(phase_angle) ==
    IF phase_angle <= PHASE_NEW_MOON_MAX \/ phase_angle > PHASE_WANING_CRESCENT_MAX THEN "New Moon"
    ELSE IF phase_angle <= PHASE_WAXING_CRESCENT_MAX THEN "Waxing Crescent"
    ELSE IF phase_angle <= PHASE_FIRST_QUARTER_MAX THEN "First Quarter"
    ELSE IF phase_angle <= PHASE_WAXING_GIBBOUS_MAX THEN "Waxing Gibbous"
    ELSE IF phase_angle <= PHASE_FULL_MOON_MAX THEN "Full Moon"
    ELSE IF phase_angle <= PHASE_WANING_GIBBOUS_MAX THEN "Waning Gibbous"
    ELSE IF phase_angle <= PHASE_LAST_QUARTER_MAX THEN "Last Quarter"
    ELSE "Waning Crescent"

\* get_moon_info: the chain of comparisons that names the phase
PhaseName(phase_angle) ==
    IF phase_angle < PHASE_NEW_MOON_MAX \/ phase_angle >= PHASE_WANING_CRESCENT_MAX THEN "New Moon"
    ELSE IF phase_angle < PHASE_WAXING_CRESCENT_MAX THEN "Waxing Crescent"
    ELSE IF phase_angle < PHASE_FIRST_QUARTER_MAX THEN "First Quarter"
    ELSE IF phase_angle < PHASE_WAXING_GIBBOUS_MAX THEN "Waxing Gibbous"
    ELSE IF phase_angle < PHASE_FULL_MOON_MAX THEN "Full Moon"
    ELSE IF phase_angle < PHASE_WANING_GIBBOUS_MAX THEN "Waning Gibbous"
    ELSE IF phase_angle < PHASE_LAST_QUARTER_MAX THEN "Last Quarter"
    ELSE "Waning Crescent"

\* get_moon_info: the darkness quality, from the illumination before rounding
DarknessQuality(phase_angle) ==
    LET illumination == IllumUnits(phase_angle)
    IN  IF illumination < DARKNESS_EXCELLENT_MAX * UnitsPerPercent THEN "Excellent"
        ELSE IF illumination < DARKNESS_GOOD_MAX * UnitsPerPercent THEN "Good"
        ELSE IF illumination < DARKNESS_FAIR_MAX * UnitsPerPercent THEN "Fair"
        ELSE "Poor"

\* MoonInfo(...); illumination in tenths of a percent
GetMoonInfoResult(phase_angle, riseset) ==
    Returned([phase_name |-> PhaseName(phase_angle),
              illumination |-> RoundedIllumination(phase_angle),
              darkness_quality |-> DarknessQuality(phase_angle),
              moonrise |-> LastEvent(riseset, TRUE),
              moonset |-> LastEvent(riseset, FALSE)])

GetMoonInfo ==
    /\ mn_pc = "idle"
    /\ \E phase_angle \in PhaseAngles, riseset \in RiseSetAnswers :
        /\ mn_in' = [phase_angle |-> phase_angle, riseset |-> riseset]
        /\ mn_out' = GetMoonInfoResult(phase_angle, riseset)
    /\ EphUsedBy(<<"sun_moon">>)
    /\ mn_pc' = "done"
    /\ UNCHANGED exceptMoon

\* The documented step function of an illumination given in tenths of a percent.
DarknessOf(tenths) ==
    IF tenths < 250 THEN "Excellent"
    ELSE IF tenths < 500 THEN "Good"
    ELSE IF tenths < 750 THEN "Fair"
    ELSE "Poor"

\* C14: in every MoonInfo returned, darkness_quality is the step function of the
\* illumination of the same record: Excellent below 25, Good below 50, Fair below 75,
\* otherwise Poor.
C14_DarknessMatchesIllumination ==
    mn_pc = "done" => mn_out.value.darkness_quality = DarknessOf(mn_out.value.illumination)

CanonicalPhases ==
    <<"New Moon", "Waxing Crescent", "First Quarter", "Waxing Gibbous",
      "Full Moon", "Waning Gibbous", "Last Quarter", "Waning Crescent">>

\* The canonical phase whose centre (0, 45, ..., 315 degrees) is nearest to the angle
\* around the circle, an angle halfway between two centres going to the later one.
NearestPhase(a) == CanonicalPhases[(((a + 22500) \div 45000) % 8) + 1]

\* C20: for every phase angle in [0, 360) the phase name is the canonical phase whose
\* 45 degree window, centred on it, closed below and open above, holds the angle;
\* [337.5, 360) and [0, 22.5) are both New Moon.
C20_PhaseNameWindows ==
    mn_pc = "done" =>
        /\ mn_out.value.phase_name = NearestPhase(mn_in.phase_angle)
        /\ (mn_in.phase_angle >= 337500 \/ mn_in.phase_angle < 22500)
             => mn_out.value.phase_name = "New Moon"

\* An angle of exactly 337.5 degrees is named New Moon, one of exactly 22.5 degrees
\* would be Waxing Crescent.
C20_Witness ==
    /\ mn_pc = "done"
    /\ mn_in.phase_angle = 337500
    /\ mn_out.value.phase_name = "New Moon"

(***************************************************************************)
(* Sun: get_sun_times of skycli/sources/sun_moon.py                        *)
(* Twilight instants are minutes of the UTC day of the report date, the    *)
(* window the code searches; sunrise and sunset are hours of that day.     *)
(***************************************************************************)
MinutesPerDay == 1440
MinutesPerDegree == 4
NoonMinute == 720

\* the fallbacks date.replace(hour=6), (hour=18), (hour=21), (hour=5)
FallbackSunrise == 6
FallbackSunset == 18
FallbackTwilightStart == 1260
FallbackTwilightEnd == 300

\* Observer longitudes: New York, Greenwich, Tokyo, Los Angeles, Almaty, Honolulu.
SunLons == {-74, 0, 139, -118, 77, -157}

\* The twilight transitions of one day by the observer's local solar time, as
\* <<minute, level reached>> (0 night, 1 astronomical, 2 nautical): a winter day,
\* an equinox day, a summer day, a summer day without night, a day without
\* transitions (polar day or night).
TwilightDays ==
    {<<<<335, 1>>, <<375, 2>>, <<1050, 1>>, <<1090, 0>>>>,
     <<<<270, 1>>, <<300, 2>>, <<1140, 1>>, <<1170, 0>>>>,
     <<<<150, 1>>, <<215, 2>>, <<1310, 1>>, <<1350, 0>>>>,
     <<<<120, 2>>, <<1380, 1>>>>,
     <<>>}

\* The UTC minute of the day at which a transition at local solar minute m happens.
ToUtcMinute(m, lon) == (m - MinutesPerDegree * lon) % MinutesPerDay

RECURSIVE InsertByTime(_, _)
InsertByTime(x, sorted) ==
    IF sorted = <<>> THEN <<x>>
    ELSE IF x[1] < Head(sorted)[1] THEN <<x>> \o sorted
    ELSE <<Head(sorted)>> \o InsertByTime(x, Tail(sorted))

RECURSIVE SortByTime(_)
SortByTime(list) ==
    IF list = <<>> THEN <<>>
    ELSE InsertByTime(Head(list), SortByTime(Tail(list)))

\* almanac.find_discrete(t0, t1, f_twilight): the day's transitions in the order of
\* their UTC instants
TwilightEvents(day, lon) ==
    SortByTime([i \in DOMAIN day |-> <<ToUtcMinute(day[i][1], lon), day[i][2]>>])

\* dt.hour of an instant of the day
HourOfMinute(m) == m \div 60

\* the loop over the twilight transitions: astro_start
RECURSIVE FirstNightAfterNoon(_)
FirstNightAfterNoon(events) ==
    IF events = <<>> THEN None
    ELSE IF Head(events)[2] = 0 /\ HourOfMinute(Head(events)[1]) > 12 THEN Some(Head(events)[1])
    ELSE FirstNightAfterNoon(Tail(events))

\* the loop over the twilight transitions: astro_end
RECURSIVE FirstAstroBeforeNoon(_)
FirstAstroBeforeNoon(events) ==
    IF events = <<>> THEN None
    ELSE IF Head(events)[2] = 1 /\ HourOfMinute(Head(events)[1]) < 12 THEN Some(Head(events)[1])
    ELSE FirstAstroBeforeNoon(Tail(events))

\* x or default
OrElse(x, default) == IF x = None THEN default ELSE TheVal(x)

\* SunTimes(...)
GetSunTimesResult(riseset, events) ==
    Returned([sunrise |-> OrElse(LastEvent(riseset, TRUE), FallbackSunrise),
              sunset |-> OrElse(LastEvent(riseset, FALSE), FallbackSunset),
              astronomical_twilight_start |-> OrElse(FirstNightAfterNoon(events), FallbackTwilightStart),
              astronomical_twilight_end |-> OrElse(FirstAstroBeforeNoon(events), FallbackTwilightEnd)])

GetSunTimes ==
    /\ sn_pc = "idle"
    /\ \E lon \in SunLons, day \in TwilightDays, riseset \in RiseSetAnswers :
        /\ sn_in' = [lon |-> lon, riseset |-> riseset, events |-> TwilightEvents(day, lon)]
        /\ sn_out' = GetSunTimesResult(riseset, TwilightEvents(day, lon))
    /\ EphUsedBy(<<"sun_moon">>)
    /\ sn_pc' = "done"
    /\ UNCHANGED exceptSun

\* "After local noon", read as an instant: later than the instant of the observer's
\* local solar noon within the window.
AfterNoonInstant(m, lon) == m > ToUtcMinute(NoonMinute, lon)

\* "After local noon", read on the observer's clock: at a local solar time past 12:00.
AfterNoonClock(m, lon) == (m + MinutesPerDegree * lon) % MinutesPerDay > NoonMinute

BeforeNoonInstant(m, lon) == m < ToUtcMinute(NoonMinute, lon)

BeforeNoonClock(m, lon) == (m + MinutesPerDegree * lon) % MinutesPerDay < NoonMinute

\* The first transition to the level among those at the given positions, else the fallback.
FirstOf(events, level, ok(_), fallback) ==
    LET hits == {i \in DOMAIN events : events[i][2] = level /\ ok(events[i][1])}
    IN  IF hits = {} THEN fallback
        ELSE events[CHOOSE i \in hits : \A j \in hits : i <= j][1]

\* C15: astronomical_twilight_start is the first transition to night level after the
\* observer's local noon and astronomical_twilight_end the first transition to
\* astronomical level before local noon, the fallbacks 21:00 and 05:00 being used
\* only when there is no such transition; "local noon" is taken in either of its two
\* readings, for each field.
C15_TwilightByLocalNoon ==
    sn_pc = "done" =>
        LET lon == sn_in.lon
            ev == sn_in.events
            aI(m) == AfterNoonInstant(m, lon)
            aC(m) == AfterNoonClock(m, lon)
            bI(m) == BeforeNoonInstant(m, lon)
            bC(m) == BeforeNoonClock(m, lon)
        IN  /\ sn_out.value.astronomical_twilight_start
                 \in {FirstOf(ev, 0, aI, FallbackTwilightStart), FirstOf(ev, 0, aC, FallbackTwilightStart)}
            /\ sn_out.value.astronomical_twilight_end
                 \in {FirstOf(ev, 1, bI, FallbackTwilightEnd), FirstOf(ev, 1, bC, FallbackTwilightEnd)}

(***************************************************************************)
(* Satellite passes: skycli/sources/satellites.py                          *)
(* Magnitudes of the feed are in hundredths, the magnitude field of a pass *)
(* in tenths (round(mag, 1)).                                              *)
(***************************************************************************)
\* NOTABLE_SATELLITES: (NORAD id, name, type)
NOTABLE_SATELLITES ==
    <<[norad_id |-> 20580, name |-> "Hubble Space Telescope", type |-> "telescope"],
      [norad_id |-> 48274, name |-> "Tiangong Space Station", type |-> "station"],
      [norad_id |-> 59559, name |-> "Starlink-31337", type |-> "starlink"]>>

\* STARLINK_SAMPLE_IDS: (NORAD id, name)
STARLINK_SAMPLE_IDS ==
    <<[norad_id |-> 58589, name |-> "Starlink-6148"],
      [norad_id |-> 58590, name |-> "Starlink-6149"],
      [norad_id |-> 58591, name |-> "Starlink-6150"],
      [norad_id |-> 58592, name |-> "Starlink-6151"],
      [norad_id |-> 58593, name |-> "Starlink-6152"],
      [norad_id |-> 59834, name |-> "Starlink-7001"],
      [norad_id |-> 59835, name |-> "Starlink-7002"],
      [norad_id |-> 59836, name |-> "Starlink-7003"]>>

BRIGHTNESS_BRILLIANT == -400
BRIGHTNESS_BRIGHT == -250
BRIGHTNESS_MODERATE == -100

\* mag <= 2.0, the test on a sampled Starlink's pass
STARLINK_MAX_MAGNITUDE == 200

\* magnitude <= -2.0, the test for the next bright pass, in tenths
NEXT_BRIGHT_MAGNITUDE == -20

\* p.get("mag", 0.0)
DEFAULT_MAGNITUDE == 0

\* max_results of the calls the model makes: the default and a smaller one
DEFAULT_MAX_RESULTS == 10
MaxResults == {DEFAULT_MAX_RESULTS, 1}

\* _magnitude_to_brightness of satellites.py
SatMagnitudeToBrightness(mag) ==
    IF mag <= BRIGHTNESS_BRILLIANT THEN "Brilliant!"
    ELSE IF mag <= BRIGHTNESS_BRIGHT THEN "Bright"
    ELSE IF mag <= BRIGHTNESS_MODERATE THEN "Moderate"
    ELSE "Faint"

\* round(mag, 1): hundredths to tenths, halfway cases to the even tenth
RoundMagnitude(mag) == IF mag < 0 THEN 0 - RoundRatio(0 - mag, 10) ELSE RoundRatio(mag, 10)

\* The satellites whose feed answers vary in the model; the feed has no passes for
\* the others.
VariedSatellites == {20580, 59559, 58589}

\* An entry of data["passes"]: a pass with or without a mag field, or an entry
\* without startUTC (which stands for the fields read as p[...]: startUTC, duration,
\* maxEl, startAz, endAz).
RawPasses ==
    [startUTC : {100, 200}, mag : {Some(m) : m \in {-450, 150, 200, 204, 350}} \cup {None}]
    \cup {[mag |-> Some(150)]}

\* What _fetch_satellite_passes returns for one satellite: [] when the request or
\* the decoding fails, else the passes of the body.
FetchAnswers == {<<>>} \cup {<<p>> : p \in RawPasses}

PassesOf(feed, norad_id) == IF norad_id \in DOMAIN feed THEN feed[norad_id] ELSE <<>>

\* SatellitePass(...)
MakeSatellitePass(name, type, norad_id, p) ==
    LET mag == OrElse(p.mag, DEFAULT_MAGNITUDE)
    IN  [satellite_name |-> name, satellite_type |-> type, norad_id |-> norad_id,
         start_time |-> p.startUTC,
         brightness |-> SatMagnitudeToBrightness(mag),
         magnitude |-> RoundMagnitude(mag)]

\* The passes appended for one satellite; filtered tells whether the magnitude test
\* of the Starlink loop applies.
RECURSIVE PassesFrom(_, _, _, _, _)
PassesFrom(name, type, norad_id, raw, filtered) ==
    IF raw = <<>> THEN <<>>
    ELSE LET p == Head(raw)
             keep == ~filtered \/ OrElse(p.mag, DEFAULT_MAGNITUDE) <= STARLINK_MAX_MAGNITUDE
         IN  (IF keep THEN <<MakeSatellitePass(name, type, norad_id, p)>> ELSE <<>>)
             \o PassesFrom(name, type, norad_id, Tail(raw), filtered)

\* the loop over NOTABLE_SATELLITES, from satellite k on: no magnitude test
RECURSIVE NotablePasses(_, _)
NotablePasses(feed, k) ==
    IF k > Len(NOTABLE_SATELLITES) THEN <<>>
    ELSE LET sat == NOTABLE_SATELLITES[k]
         IN  PassesFrom(sat.name, sat.type, sat.norad_id, PassesOf(feed, sat.norad_id), FALSE)
             \o NotablePasses(feed, k + 1)

\* the loop over STARLINK_SAMPLE_IDS, from satellite k on
RECURSIVE StarlinkPasses(_, _)
StarlinkPasses(feed, k) ==
    IF k > Len(STARLINK_SAMPLE_IDS) THEN <<>>
    ELSE LET sat == STARLINK_SAMPLE_IDS[k]
         IN  PassesFrom(sat.name, "starlink", sat.norad_id, PassesOf(feed, sat.norad_id), TRUE)
             \o StarlinkPasses(feed, k + 1)

\* all_passes.sort(key=start_time): stable, ascending
RECURSIVE InsertByStart(_, _)
InsertByStart(sorted, x) ==
    IF sorted = <<>> THEN <<x>>
    ELSE IF x.start_time < Head(sorted).start_time THEN <<x>> \o sorted
    ELSE <<Head(sorted)>> \o InsertByStart(Tail(sorted), x)

RECURSIVE SortByStart(_)
SortByStart(list) ==
    IF list = <<>> THEN <<>>
    ELSE InsertByStart(SortByStart(SubSeq(list, 1, Len(list) - 1)), list[Len(list)])

\* the first pass with magnitude <= -2.0, None if there is none
NextBright(passes) ==
    LET hits == {i \in DOMAIN passes : passes[i].magnitude <= NEXT_BRIGHT_MAGNITUDE}
    IN  IF hits = {} THEN None ELSE Some(passes[CHOOSE i \in hits : \A j \in hits : i <= j])

SatelliteInfo(passes) ==
    [total_passes |-> Len(passes),
     starlink_passes |-> Cardinality({i \in DOMAIN passes : passes[i].satellite_type = "starlink"}),
     station_passes |-> Cardinality({i \in DOMAIN passes : passes[i].satellite_type = "station"}),
     next_bright_pass |-> NextBright(passes),
     passes |-> passes]

\* An entry without startUTC makes p["startUTC"] raise KeyError, unless the entry is
\* one the Starlink loop's magnitude test drops before reading it.
SatEntryRaises(feed) ==
    \/ \E k \in DOMAIN NOTABLE_SATELLITES :
         \E i \in DOMAIN PassesOf(feed, NOTABLE_SATELLITES[k].norad_id) :
            "startUTC" \notin DOMAIN PassesOf(feed, NOTABLE_SATELLITES[k].norad_id)[i]
    \/ \E k \in DOMAIN STARLINK_SAMPLE_IDS :
         \E i \in DOMAIN PassesOf(feed, STARLINK_SAMPLE_IDS[k].norad_id) :
            LET p == PassesOf(feed, STARLINK_SAMPLE_IDS[k].norad_id)[i]
            IN  /\ "startUTC" \notin DOMAIN p
                /\ OrElse(p.mag, DEFAULT_MAGNITUDE) <= STARLINK_MAX_MAGNITUDE

\* get_satellite_passes
GetSatellitePassesResult(has_key, feed, max_results) ==
    IF ~has_key THEN Returned(SatelliteInfo(<<>>))
    ELSE IF SatEntryRaises(feed) THEN Raised("KeyError")
    ELSE Returned(SatelliteInfo(
            SliceTo(SortByStart(NotablePasses(feed, 1) \o StarlinkPasses(feed, 1)), max_results)))

GetSatellitePasses ==
    /\ sat_pc = "idle"
    /\ \E has_key \in BOOLEAN, feed \in [VariedSatellites -> FetchAnswers], max_results \in MaxResults :
        /\ sat_in' = [has_key |-> has_key, feed |-> feed, max_results |-> max_results]
        /\ sat_out' = GetSatellitePassesResult(has_key, feed, max_results)
    /\ sat_pc' = "done"
    /\ UNCHANGED exceptSat

\* C18: no pass of type starlink with a magnitude above 2.0 is among the passes
\* get_satellite_passes returns, whatever the feed answers for any tracked satellite.
C18_NoFaintStarlink ==
    (sat_pc = "done" /\ sat_out.kind = "return") =>
        \A i \in DOMAIN sat_out.value.passes :
            sat_out.value.passes[i].satellite_type = "starlink"
                => sat_out.value.passes[i].magnitude <= 20

(***************************************************************************)
(* Saved locations: skycli/locations.py and the location commands of       *)
(* skycli/cli.py. The store is the file locations.json: missing, or a JSON *)
(* object {"default": ..., "locations": {name: {"lat", "lon"}}}. Every     *)
(* command loads the file, and saves it only when it succeeds.             *)
(* Coordinates are in tenths of a degree.                                  *)
(***************************************************************************)

\* How many names the commands of the model choose from.
MaxNames == 2

\* The names given on the command line; the empty string is a name like any other.
LocationNames == {<<"home", "", "cabin">>[i] : i \in 1..MaxNames}

\* The lat and lon given to add
Coordinates == {[lat |-> 407, lon |-> -740], [lat |-> 410, lon |-> -750]}

\* load_locations: the file's content, the empty structure if the file is missing
LoadLocations(file) ==
    IF file = None THEN [default |-> None, locations |-> <<>>] ELSE TheVal(file)

\* get_default_location: (name, lat, lon) of the default, or None
GetDefaultLocation(file) ==
    LET data == LoadLocations(file)
    IN IF data.default = None \/ data.default = Some("") THEN None
       ELSE IF TheVal(data.default) \notin DOMAIN data.locations THEN None
       ELSE Some(<<TheVal(data.default),
                   data.locations[TheVal(data.default)].lat,
                   data.locations[TheVal(data.default)].lon>>)

\* A command that raised click.ClickException: exit code 1, nothing saved.
CommandFailed == [exit |-> 1, saved |-> None]

\* A command that ran to its end: exit code 0 after save_locations(data).
CommandSaved(data) == [exit |-> 0, saved |-> Some(data)]

AddOverwrites(data, name, coord, set_default) ==
    LET locations == [n \in DOMAIN data.locations \cup {name} |->
                          IF n = name THEN coord ELSE data.locations[n]]
        saved == [default |-> IF set_default THEN Some(name) ELSE data.default,
                  locations |-> locations]
    IN IF name \in DOMAIN data.locations THEN [exit |-> 1, saved |-> Some(saved)]
       ELSE CommandSaved(saved)

\* add, on the loaded data
AddResult(data, name, coord, set_default) ==
    IF name \in DOMAIN data.locations THEN CommandFailed
    ELSE CommandSaved(
           [default |-> IF set_default THEN Some(name) ELSE data.default,
            locations |-> [n \in DOMAIN data.locations \cup {name} |->
                              IF n = name THEN coord ELSE data.locations[n]]])

RemoveKeepsDefault(data, name) ==
    IF name \notin DOMAIN data.locations THEN CommandFailed
    ELSE CommandSaved(
           [default |-> data.default,
            locations |-> [n \in DOMAIN data.locations \ {name} |-> data.locations[n]]])

\* remove, on the loaded data
RemoveResult(data, name) ==
    IF name \notin DOMAIN data.locations THEN CommandFailed
    ELSE CommandSaved(
           [default |-> IF data.default = Some(name) THEN None ELSE data.default,
            locations |-> [n \in DOMAIN data.locations \ {name} |-> data.locations[n]]])

\* set_default, on the loaded data
SetDefaultResult(data, name) ==
    IF name \notin DOMAIN data.locations THEN CommandFailed
    ELSE CommandSaved([default |-> Some(name), locations |-> data.locations])

\* The file after a command: what it saved, or what was there if it saved nothing.
FileAfter(file, result) == IF result.saved = None THEN file ELSE result.saved

LocationInit ==
    /\ loc_file = None
    /\ loc_last = NoInput

\* astrosky location add [--default] NAME LAT LON
LocationAdd ==
    /\ \E name \in LocationNames, coord \in Coordinates, set_default \in BOOLEAN :
         LET result == AddResult(LoadLocations(loc_file), name, coord, set_default)
         IN /\ loc_file' = FileAfter(loc_file, result)
            /\ loc_last' = [cmd |-> "add", name |-> name, coord |-> coord,
                            set_default |-> set_default, exit |-> result.exit,
                            before |-> loc_file]
    /\ UNCHANGED exceptLoc

\* astrosky location remove NAME
LocationRemove ==
    /\ \E name \in LocationNames :
         LET result == RemoveResult(LoadLocations(loc_file), name)
         IN /\ loc_file' = FileAfter(loc_file, result)
            /\ loc_last' = [cmd |-> "remove", name |-> name, exit |-> result.exit,
                            before |-> loc_file]
    /\ UNCHANGED exceptLoc

\* astrosky location set-default NAME
LocationSetDefault ==
    /\ \E name \in LocationNames :
         LET result == SetDefaultResult(LoadLocations(loc_file), name)
         IN /\ loc_file' = FileAfter(loc_file, result)
            /\ loc_last' = [cmd |-> "set-default", name |-> name, exit |-> result.exit,
                            before |-> loc_file]
    /\ UNCHANGED exceptLoc

LocationNext == LocationAdd \/ LocationRemove \/ LocationSetDefault

\* The store as the commands see it now, and as the last command found it.
StoreNow == LoadLocations(loc_file)
StoreBefore == LoadLocations(loc_last.before)

\* C21: after any sequence of add, add --default, remove and set-default from an
\* empty store, the stored default is null or the name of a stored location, and
\* a remove of the default location leaves the default null.
C21_DefaultIsStoredLocation ==
    /\ StoreNow.default = None \/ TheVal(StoreNow.default) \in DOMAIN StoreNow.locations
    /\ (/\ loc_last # NoInput
        /\ loc_last.cmd = "remove"
        /\ loc_last.exit = 0
        /\ StoreBefore.default = Some(loc_last.name))
           => StoreNow.default = None

\* C21 witness: the default location was removed while another location stays
\* stored, and the default is null.
C21_Witness ==
    /\ loc_last # NoInput
    /\ loc_last.cmd = "remove"
    /\ loc_last.exit = 0
    /\ StoreBefore.default = Some(loc_last.name)
    /\ DOMAIN StoreNow.locations # {}
    /\ StoreNow.default = None

\* The last command is one the code rejects: add of a stored name, remove or
\* set-default of a name that is not stored.
LocationCommandFails ==
    /\ loc_last # NoInput
    /\ IF loc_last.cmd = "add" THEN loc_last.name \in DOMAIN StoreBefore.locations
       ELSE loc_last.name \notin DOMAIN StoreBefore.locations

\* C22: a location command that fails exits with an error and leaves the file, its
\* locations and its default, as it was.
C22_FailedCommandChangesNothing ==
    LocationCommandFails => (loc_last.exit # 0 /\ loc_file = loc_last.before)

\* C22 witness: add --default of a stored name with other coordinates, while another
\* location is the default, is rejected and nothing changed.
C22_Witness ==
    /\ LocationCommandFails
    /\ loc_last.cmd = "add"
    /\ loc_last.set_default
    /\ StoreBefore.locations[loc_last.name] # loc_last.coord
    /\ StoreBefore.default # None
    /\ StoreBefore.default # Some(loc_last.name)
    /\ loc_last.exit = 1
    /\ StoreNow = StoreBefore

(***************************************************************************)
(* Observation log: api/app/routers/observations.py over the observations  *)
(* table of api/app/models.py. The table is a function from the ids it     *)
(* holds (the primary key) to the row's device_id and notes; notes stands  *)
(* for every column a request can set besides id and device_id. Each       *)
(* request runs in its own session (database.py: autoflush off), which is  *)
(* committed at the end of the handler or rolled back when it raises.      *)
(***************************************************************************)

\* Most observations one sync request lists in the model.
MaxSync == 2

ObservationIds == {"obs-1", "obs-2"}
Devices == {"device-a", "device-b"}

\* ObservationCreate bodies naming the device
ObservationsOf(device) == [id : ObservationIds, device_id : {device}, notes : {"n1", "n2"}]

\* SyncRequest bodies: a device listing observations under its own device_id, or one
\* observation under another device's (nothing in the request ties the two together).
SyncRequests ==
    UNION {{[device_id |-> dv, observations |-> l] :
               l \in UNION {[1..n -> ObservationsOf(dv)] : n \in 0..MaxSync}}
           \cup {[device_id |-> dv, observations |-> <<o>>] :
                    o \in UNION {ObservationsOf(x) : x \in Devices \ {dv}}}
           : dv \in Devices}

\* The columns of the row an ObservationCreate sets: setattr over model_dump(), or
\* Observation(**model_dump())
RowOf(obs_data) == [device_id |-> obs_data.device_id, notes |-> obs_data.notes]

RECURSIVE SyncLoop(_, _, _, _)
\* The loop of sync_observations from the k-th listed observation on: the rows as the
\* session holds them, and the new objects added to it. The query for an existing
\* row reads the table, which the objects added so far have not been flushed to.
SyncLoop(rows, pending, observations, k) ==
    IF k > Len(observations) THEN [rows |-> rows, pending |-> pending]
    ELSE LET obs_data == observations[k]
         IN IF obs_data.id \in DOMAIN rows
            THEN SyncLoop([rows EXCEPT ![obs_data.id] = RowOf(obs_data)], pending,
                          observations, k + 1)
            ELSE SyncLoop(rows, Append(pending, obs_data), observations, k + 1)

\* db.commit(): the table after the flush, or None when two new objects carry the
\* same primary key and the second INSERT fails (IntegrityError).
Commit(rows, pending) ==
    IF \E i, j \in DOMAIN pending : i < j /\ pending[i].id = pending[j].id THEN None
    ELSE Some([id \in DOMAIN rows \cup {pending[i].id : i \in DOMAIN pending} |->
                 IF id \in DOMAIN rows THEN rows[id]
                 ELSE RowOf(pending[CHOOSE i \in DOMAIN pending : pending[i].id = id])])

\* sync_observations: the response's status, the table afterwards, and the fields
\* of the SyncResponse (device_observations as the set of its ids).
SyncObservationsResult(db, request) ==
    LET session == SyncLoop(db, <<>>, request.observations, 1)
        committed == Commit(session.rows, session.pending)
    IN IF committed = None THEN [status |-> 500, db |-> db]
       ELSE [status |-> 200, db |-> TheVal(committed),
             synced |-> Len(session.pending),
             device_observations |->
                 {id \in DOMAIN TheVal(committed) :
                     TheVal(committed)[id].device_id = request.device_id}]

DeleteAnyDevice(db, observation_id, device_id) ==
    IF observation_id \in DOMAIN db
    THEN [status |-> 200, db |-> [id \in DOMAIN db \ {observation_id} |-> db[id]]]
    ELSE [status |-> 404, db |-> db]

\* delete_observation
DeleteObservationResult(db, observation_id, device_id) ==
    IF observation_id \in DOMAIN db /\ db[observation_id].device_id = device_id
    THEN [status |-> 200, db |-> [id \in DOMAIN db \ {observation_id} |-> db[id]]]
    ELSE [status |-> 404, db |-> db]

\* POST /observations/sync
SyncObservations ==
    /\ \E request \in SyncRequests :
         LET response == SyncObservationsResult(obs_db, request)
         IN /\ obs_db' = response.db
            /\ obs_last' = [op |-> "sync", device_id |-> request.device_id,
                            observations |-> request.observations,
                            response |-> response, before |-> obs_db]
    /\ UNCHANGED exceptObs

\* DELETE /observations/{observation_id}?device_id=...
DeleteObservation ==
    /\ \E observation_id \in ObservationIds, device_id \in Devices :
         LET response == DeleteObservationResult(obs_db, observation_id, device_id)
         IN /\ obs_db' = response.db
            /\ obs_last' = [op |-> "delete", device_id |-> device_id,
                            observation_id |-> observation_id,
                            response |-> response, before |-> obs_db]
    /\ UNCHANGED exceptObs

ObservationsNext == SyncObservations \/ DeleteObservation

\* The last request was a delete of an observation stored under the request's device.
DeleteOfOwn ==
    /\ obs_last.observation_id \in DOMAIN obs_last.before
    /\ obs_last.before[obs_last.observation_id].device_id = obs_last.device_id

\* C23: delete_observation removes the observation only when its stored device_id is
\* the request's; for any other device_id, or an unknown id, it answers 404 and the
\* table is unchanged.
C23_DeleteOnlyOwn ==
    (obs_last # NoInput /\ obs_last.op = "delete") =>
        IF DeleteOfOwn
        THEN /\ obs_last.response.status = 200
             /\ obs_db = [id \in DOMAIN obs_last.before \ {obs_last.observation_id} |->
                             obs_last.before[id]]
        ELSE /\ obs_last.response.status = 404
             /\ obs_db = obs_last.before

\* C23 witness: a delete naming another device's observation is answered 404 and the
\* observation stays.
C23_Witness ==
    /\ obs_last # NoInput
    /\ obs_last.op = "delete"
    /\ obs_last.observation_id \in DOMAIN obs_last.before
    /\ obs_last.before[obs_last.observation_id].device_id # obs_last.device_id
    /\ obs_last.response.status = 404
    /\ obs_last.observation_id \in DOMAIN obs_db

\* The ids a sync request lists
ListedIds == {obs_last.observations[i].id : i \in DOMAIN obs_last.observations}

\* C24 as stated: every sync succeeds, afterwards the table holds each listed id with
\* values the request gave for it, and synced counts the listed ids that were not in
\* the table before.
C24_SyncUpserts ==
    (obs_last # NoInput /\ obs_last.op = "sync") =>
        /\ obs_last.response.status = 200
        /\ \A id \in ListedIds :
             /\ id \in DOMAIN obs_db
             /\ \E i \in DOMAIN obs_last.observations :
                  /\ obs_last.observations[i].id = id
                  /\ obs_db[id] = RowOf(obs_last.observations[i])
        /\ obs_last.response.synced = Cardinality(ListedIds \ DOMAIN obs_last.before)

\* C27 as stated: an observation stored under a device is changed or removed only by
\* a request that carries that device's id.
C27_OnlyOwnerChanges ==
    obs_last # NoInput =>
        \A id \in DOMAIN obs_last.before :
            (id \notin DOMAIN obs_db \/ obs_db[id] # obs_last.before[id])
                => obs_last.device_id = obs_last.before[id].device_id

(***************************************************************************)
(* Specifications: one per component, each from the same initial state.    *)
(***************************************************************************)
IdleInit(pc, in, out) == pc = "idle" /\ in = NoInput /\ out = NotCalled

Init ==
    /\ ReportInit
    /\ IssInit
    /\ IdleInit(au_pc, au_in, au_out)
    /\ IdleInit(wx_pc, wx_in, wx_out)
    /\ IdleInit(ev_pc, ev_in, ev_out)
    /\ IdleInit(pl_pc, pl_in, pl_out)
    /\ IdleInit(dso_pc, dso_in, dso_out)
    /\ IdleInit(mt_pc, mt_in, mt_out)
    /\ IdleInit(mn_pc, mn_in, mn_out)
    /\ IdleInit(sn_pc, sn_in, sn_out)
    /\ IdleInit(sat_pc, sat_in, sat_out)
    /\ EphInit
    /\ LocationInit
    /\ obs_db = <<>> /\ obs_last = NoInput
    /\ IdleInit(vp_pc, vp_in, vp_out)
    /\ IdleInit(cc_pc, cc_in, cc_out)

SpecReport == Init /\ [][ReportNext]_vars

SpecIss == Init /\ [][GetIssPasses]_vars

SpecAurora == Init /\ [][GetAuroraForecast]_vars

SpecWeather == Init /\ [][GetObservingConditions]_vars

SpecEvents == Init /\ [][GetUpcomingEvents]_vars

SpecPlanets == Init /\ [][GetVisiblePlanets]_vars

SpecDso == Init /\ [][GetVisibleDso]_vars

SpecMeteors == Init /\ [][GetActiveShowers]_vars

SpecEph == Init /\ [][EphNext]_vars

SpecMoon == Init /\ [][GetMoonInfo]_vars

SpecSun == Init /\ [][GetSunTimes]_vars

SpecSat == Init /\ [][GetSatellitePasses]_vars

SpecLocations == Init /\ [][LocationNext]_vars

SpecVisibility == Init /\ [][CompareVisibility]_vars

SpecCondition == Init /\ [][CompareCondition]_vars

SpecObservations == Init /\ [][ObservationsNext]_vars
====
